---- MODULE Spec2Model ----
(***************************************************************************)
(* A model of the TigVCS plumbing layer: the content-addressed store       *)
(* "Safe" (internal/safe/safe.go), and the gating state machine of         *)
(* LocalWorkspace (internal/workspace/local.go) and of LocalTracker /      *)
(* AutoTracker (internal/change/auto_tracker.go).                          *)
(*                                                                         *)
(* Strings that the code inspects character by character (content hashes)  *)
(* are sequences of one-character strings.  File contents are sequences of *)
(* bytes.  SHA-256 is modelled as an injective function from the bounded   *)
(* universe of contents to 64-character lowercase hex strings.  Time       *)
(* stamps (created_at, accessed_at, mod_time) and file modes are left out: *)
(* no modelled decision reads them.                                        *)
(***************************************************************************)
EXTENDS Integers, Sequences, FiniteSets, TLC

VARIABLES
    disk,          \* content directory of the Safe: blob path -> bytes
    meta,          \* key-value records "content:<hash>" -> ContentMeta
    cache,         \* the Safe's LRU cache, most recently used first
    hist,          \* history of successful Store/Delete calls (not program state)
    pc,            \* concurrent Safe: each caller's position in its call
    loc,           \* concurrent Safe: each caller's local variables
    files,         \* working tree: path -> bytes
    GatedChanges,  \* in-memory gated map of the workspace / tracker
    Tracked,       \* in-memory tracked set of the tracker
    db,            \* key-value records of the workspace: <<prefix, path>> -> JSON
    events,        \* file-system events the watcher has not yet handled
    impl,          \* which implementation of Gate the instance is
    diffRun,       \* the Diff call in progress: its operands, loop state, result
    objects        \* the FileStore: its files under root and its cache map

safeVars == <<disk, meta, cache>>
concVars == <<pc, loc>>
wsVars   == <<files, GatedChanges, Tracked, db, events, impl, diffRun, objects>>
vars     == <<disk, meta, cache, hist, pc, loc,
              files, GatedChanges, Tracked, db, events, impl, diffRun, objects>>

----------------------------------------------------------------------------
(* Bounds of the model *)

MaxRefs   == 2    \* at most this many outstanding references per content
MaxBatch  == 2    \* longest StoreBatch argument
CacheSize == 1    \* Options.CacheSize (lru.New needs a positive size)
NumProcs  == 2    \* concurrent callers of one Safe
MaxCalls  == 4    \* calls the concurrent callers make in all
MaxEvents == 1    \* file-system events waiting in the watcher's channel
MaxChangeSets == 1  \* changesets stored in one run
MaxLines  == 3    \* lines of an operand of Diff
MaxContext == 2   \* largest Engine.contextLines

(* Program constants *)

HashLen   == 64           \* isValidHash: len(hash) != 64
ShardLen  == 2            \* contentPath: hash[:2], hash[2:]
MaxInt32  == 2147483647   \* RefCount is a uint32, held as the int32 of the same bits

----------------------------------------------------------------------------
(* Strings and hashing *)

HexLower == <<"0","1","2","3","4","5","6","7","8","9","a","b","c","d","e","f">>
HexUpper == <<"0","1","2","3","4","5","6","7","8","9","A","B","C","D","E","F">>

Range(f) == {f[i] : i \in DOMAIN f}

\* The contents callers store and files hold: the empty one and a one-byte one.
Contents == {<< >>, <<1>>}

\* Bytes that are no content of the above: what a damaged blob file holds.
Garbage == <<7>>

\* The contents given to the FileStore.
ObjectContents == Contents \cup {<<2>>, <<1, 2>>}

\* sha256.Sum256 followed by hex.EncodeToString: 64 lowercase hex characters,
\* distinct for distinct contents.  Code is the position of a byte sequence
\* in the bounded universe (distinct for distinct sequences of at most two
\* bytes below 15).
DigestTable ==
    LET RECURSIVE Code(_)
        Code(c) == IF c = << >> THEN 0 ELSE (c[1] + 1) + 16 * Code(Tail(c))
    IN  [content \in Contents \cup {Garbage} \cup ObjectContents |->
            [i \in 1..HashLen |->
                IF i = 1 THEN HexLower[((Code(content) \div 16) % 16) + 1]
                ELSE IF i = 2 THEN HexLower[(Code(content) % 16) + 1]
                ELSE HexLower[(i % 16) + 1]]]

hashContent(content) == DigestTable[content]

\* len(hash) = 64 and hex.DecodeString succeeds: encoding/hex fromHexChar
\* accepts 0-9, a-f and A-F.
isValidHash(hash) ==
    /\ Len(hash) = HashLen
    /\ \A i \in 1..Len(hash) : hash[i] \in Range(HexLower) \cup Range(HexUpper)

\* filepath.Join(s.root, hash[:2], hash[2:]), relative to the root.
contentPath(hash) ==
    <<SubSeq(hash, 1, ShardLen), SubSeq(hash, ShardLen + 1, Len(hash))>>

----------------------------------------------------------------------------
(* The LRU cache (hashicorp/golang-lru): a list of entries, most recently  *)
(* used first, holding at most CacheSize entries.                           *)

cacheContains(c, key) == \E i \in 1..Len(c) : c[i].key = key

\* Cache.Remove.
cacheRemove(c, key) == SelectSeq(c, LAMBDA e : e.key # key)

\* Cache.Get: a hit moves the entry to the front.
cacheGet(c, key) ==
    IF cacheContains(c, key)
    THEN LET hit == c[CHOOSE i \in 1..Len(c) : c[i].key = key]
         IN  [ok |-> TRUE, value |-> hit.value,
              cache |-> <<hit>> \o cacheRemove(c, key)]
    ELSE [ok |-> FALSE, value |-> << >>, cache |-> c]

\* Cache.Add: insert or update at the front; evict the oldest beyond the size.
cacheAdd(c, key, value) ==
    LET added == <<[key |-> key, value |-> value]>> \o cacheRemove(c, key)
    IN  IF Len(added) > CacheSize THEN SubSeq(added, 1, CacheSize) ELSE added

----------------------------------------------------------------------------
(* The Safe.  A Safe state is a record [disk, meta, cache]; every operation *)
(* returns the state it leaves together with its results.  Errors:         *)
(*   ""  nil,  "InvalidHash"  ErrInvalidHash,  "NotFound"  ErrContentNotFound, *)
(*   "HashMismatch"  "content hash mismatch",  "IO"  a failed file or       *)
(*   database call,  "Panic"  a call through the nil decompress field.      *)

NoErr == ""
NoHash == << >>

SafeState == [disk |-> disk, meta |-> meta, cache |-> cache]

\* getMeta: the record "content:<hash>", or ErrContentNotFound.
getMeta(st, hash) ==
    IF hash \in DOMAIN st.meta
    THEN [meta |-> st.meta[hash], err |-> NoErr]
    ELSE [meta |-> [hash |-> NoHash, size |-> 0, ref_count |-> 0, compressed |-> FALSE],
          err |-> "NotFound"]

\* storeMeta: txn.Set("content:"+meta.Hash, json(meta)).
storeMeta(st, m) ==
    [st EXCEPT !.meta = [h \in DOMAIN st.meta \cup {m.hash} |->
                            IF h = m.hash THEN m ELSE st.meta[h]]]

\* deleteMeta: txn.Delete("content:"+hash).
deleteMeta(st, hash) ==
    [st EXCEPT !.meta = [h \in DOMAIN st.meta \ {hash} |-> st.meta[h]]]

\* os.WriteFile(contentPath, content).
writeFile_Truncated(st, path, content) ==
    [st EXCEPT !.disk = [p \in DOMAIN st.disk \cup {path} |->
                            IF p = path THEN << >> ELSE st.disk[p]]]
writeFile(st, path, content) ==
    [st EXCEPT !.disk = [p \in DOMAIN st.disk \cup {path} |->
                            IF p = path THEN content ELSE st.disk[p]]]

\* os.Remove(contentPath); a missing file is not an error for the callers.
removeFile(st, path) ==
    [st EXCEPT !.disk = [p \in DOMAIN st.disk \ {path} |-> st.disk[p]]]

\* uint32 arithmetic.  A uint32 v is represented by the 32-bit two's-complement
\* integer with the same bits, so 2^32 - 1 (the result of 0 - 1) is -1.
Uint32Inc(x) == IF x = MaxInt32 THEN (-MaxInt32) - 1 ELSE x + 1
Uint32Dec(x) == IF x = (-MaxInt32) - 1 THEN MaxInt32 ELSE x - 1

\* Safe.Exists.  dbFault: the metadata read fails with a database error.
Exists(st, hash, dbFault) ==
    IF ~isValidHash(hash) THEN [val |-> FALSE, err |-> "InvalidHash"]
    ELSE IF cacheContains(st.cache, hash) THEN [val |-> TRUE, err |-> NoErr]
    ELSE IF dbFault THEN [val |-> FALSE, err |-> "IO"]
    ELSE IF getMeta(st, hash).err = "NotFound" THEN [val |-> FALSE, err |-> NoErr]
    ELSE [val |-> TRUE, err |-> NoErr]

\* Safe.incrementRefCount: read the record, add one, write it back.
incrementRefCount_Lost(st, hash, dbFault) ==
    [st |-> st, err |-> IF hash \in DOMAIN st.meta THEN NoErr ELSE "NotFound"]
incrementRefCount(st, hash, dbFault) ==
    LET got == getMeta(st, hash)
    IN  IF got.err # NoErr THEN [st |-> st, err |-> got.err]
        ELSE IF dbFault THEN [st |-> st, err |-> "IO"]
        ELSE [st |-> storeMeta(st, [got.meta EXCEPT
                        !.ref_count = Uint32Inc(@)]),
              err |-> NoErr]

\* The steps of Store at which a file or database call can be made to fail.
\* "write" stands for MkdirAll or WriteFile failing: both leave no file.
\* "db" is the database failing on every call of this Store.
Faults == {"none", "exists", "incr", "write", "meta", "db"}

\* Safe.Store.
StoreOp(st, content, fault) ==
    LET hash == hashContent(content)
        ex   == Exists(st, hash, fault \in {"exists", "db"})
        inc  == incrementRefCount(st, hash, fault \in {"incr", "db"})
        m    == [hash |-> hash, size |-> Len(content), ref_count |-> 1,
                 compressed |-> FALSE]
        written == writeFile(st, contentPath(hash), content)
    IN  IF ex.err # NoErr THEN [st |-> st, hash |-> NoHash, err |-> ex.err]
        ELSE IF ex.val
        THEN IF inc.err # NoErr THEN [st |-> st, hash |-> NoHash, err |-> inc.err]
             ELSE [st |-> inc.st, hash |-> hash, err |-> NoErr]
        ELSE IF fault = "write"
        THEN [st |-> st, hash |-> NoHash, err |-> "IO"]
        ELSE IF fault = "meta"
        THEN [st |-> removeFile(written, contentPath(hash)),
              hash |-> NoHash, err |-> "IO"]
        ELSE [st |-> [storeMeta(written, m) EXCEPT
                        !.cache = cacheAdd(st.cache, hash, content)],
              hash |-> hash, err |-> NoErr]

\* Safe.Get.  src tells where the returned bytes came from.
GetOp(st, hash) ==
    LET hit  == cacheGet(st.cache, hash)
        got  == getMeta(st, hash)
        path == contentPath(hash)
    IN  IF ~isValidHash(hash)
        THEN [st |-> st, val |-> << >>, err |-> "InvalidHash", src |-> "none"]
        ELSE IF hit.ok
        THEN [st |-> [st EXCEPT !.cache = hit.cache], val |-> hit.value,
              err |-> NoErr, src |-> "cache"]
        ELSE IF got.err # NoErr
        THEN [st |-> st, val |-> << >>, err |-> got.err, src |-> "none"]
        ELSE IF path \notin DOMAIN st.disk
        THEN [st |-> st, val |-> << >>, err |-> "NotFound", src |-> "none"]
        ELSE IF got.meta.compressed
        THEN [st |-> st, val |-> << >>, err |-> "Panic", src |-> "none"]
        ELSE IF hashContent(st.disk[path]) # hash
        THEN [st |-> st, val |-> << >>, err |-> "HashMismatch", src |-> "none"]
        ELSE [st |-> [storeMeta(st, got.meta) EXCEPT
                        !.cache = cacheAdd(st.cache, hash, st.disk[path])],
              val |-> st.disk[path], err |-> NoErr, src |-> "disk"]

\* Safe.Verify: Get, then the hash of what Get returned against the
\* argument.
VerifyOp(st, hash) ==
    LET got == GetOp(st, hash)
    IN  IF got.err # NoErr THEN [st |-> got.st, err |-> got.err]
        ELSE IF hashContent(got.val) # hash
        THEN [st |-> got.st, err |-> "HashMismatch"]
        ELSE [st |-> got.st, err |-> NoErr]

\* Safe.Delete.
DeleteOp_Always(st, hash) ==
    LET got == getMeta(st, hash)
    IN  IF ~isValidHash(hash) THEN [st |-> st, err |-> "InvalidHash"]
        ELSE IF got.err # NoErr THEN [st |-> st, err |-> got.err]
        ELSE [st |-> [deleteMeta(removeFile(st, contentPath(hash)), hash) EXCEPT
                        !.cache = cacheRemove(st.cache, hash)],
              err |-> NoErr]
DeleteOp(st, hash) ==
    LET got == getMeta(st, hash)
        rc  == Uint32Dec(got.meta.ref_count)
    IN  IF ~isValidHash(hash) THEN [st |-> st, err |-> "InvalidHash"]
        ELSE IF got.err # NoErr THEN [st |-> st, err |-> got.err]
        ELSE IF rc = 0
        THEN [st |-> [deleteMeta(removeFile(st, contentPath(hash)), hash) EXCEPT
                        !.cache = cacheRemove(st.cache, hash)],
              err |-> NoErr]
        ELSE [st |-> storeMeta(st, [got.meta EXCEPT !.ref_count = rc]),
              err |-> NoErr]

----------------------------------------------------------------------------
(* History of the calls made (not program state).  For each content c:     *)
(*   live[c]  successful Stores of c minus successful Deletes of its hash; *)
(*   run[c], dels[c]  the scenario "run[c] Stores of c starting from an    *)
(*            absent hash, followed by dels[c] Deletes, nothing else       *)
(*            stored in between"; run[c] = 0 when c is in no such scenario; *)
(*   rets[c]  the hashes the Stores of the scenario returned;              *)
(*   rolled   the last call was a StoreBatch that failed after its first item. *)

\* A Safe state with the history: Store and Delete as the callers see them.
Traced == [st |-> SafeState, hist |-> hist]

SafeStore(ts, content, fault) ==
    LET r == StoreOp(ts.st, content, fault)
        h == ts.hist
        c == content
        noted ==
            IF r.err # NoErr THEN h
            ELSE IF h.live[c] = 0
            THEN [h EXCEPT !.live[c] = 1, !.run[c] = 1, !.dels[c] = 0,
                           !.rets[c] = {r.hash}]
            ELSE IF h.run[c] >= 1 /\ h.dels[c] = 0
            THEN [h EXCEPT !.live[c] = @ + 1, !.run[c] = @ + 1,
                           !.rets[c] = @ \cup {r.hash}]
            ELSE [h EXCEPT !.live[c] = @ + 1, !.run[c] = 0, !.dels[c] = 0,
                           !.rets[c] = {}]
    IN  [st |-> r.st, hist |-> noted, hash |-> r.hash, err |-> r.err]

SafeDelete(ts, hash) ==
    LET r == DeleteOp(ts.st, hash)
        h == ts.hist
        noted ==
            IF r.err # NoErr THEN h
            ELSE [h EXCEPT
                    !.live = [c \in Contents |->
                                IF hashContent(c) = hash /\ @[c] > 0
                                THEN @[c] - 1 ELSE @[c]],
                    !.dels = [c \in Contents |->
                                IF hashContent(c) = hash /\ h.run[c] >= 1
                                THEN @[c] + 1 ELSE @[c]]]
    IN  [st |-> r.st, hist |-> noted, err |-> r.err]

\* StoreBatch's cleanup: for j := 0; j < i; j++ { s.Delete(hashes[j]) },
\* the results of the Deletes being dropped.
RECURSIVE Rollback(_, _, _)
Rollback_SkipLast(ts, hashes, j) ==
    IF j >= Len(hashes) THEN [st |-> ts.st, hist |-> ts.hist]
    ELSE Rollback(SafeDelete(ts, hashes[j]), hashes, j + 1)
Rollback(ts, hashes, j) ==
    IF j > Len(hashes) THEN [st |-> ts.st, hist |-> ts.hist]
    ELSE Rollback(SafeDelete(ts, hashes[j]), hashes, j + 1)

\* Safe.StoreBatch.  The Store of item failAt (1-based; 0: none) meets `fault`.
StoreBatchOp(ts, contents, failAt, fault) ==
    LET RECURSIVE StoreBatchFrom(_, _, _)
        \* the loop from item i on, `hashes` being those stored so far
        StoreBatchFrom(t, i, hashes) ==
            IF i > Len(contents)
            THEN [st |-> t.st, hist |-> t.hist, hashes |-> hashes, err |-> NoErr]
            ELSE LET r == SafeStore(t, contents[i],
                                    IF i = failAt THEN fault ELSE "none")
                     back == Rollback([st |-> r.st, hist |-> r.hist], hashes, 1)
                 IN  IF r.err # NoErr
                     THEN [st |-> back.st, hist |-> back.hist, hashes |-> << >>,
                           err |-> r.err]
                     ELSE StoreBatchFrom([st |-> r.st, hist |-> r.hist], i + 1,
                                         Append(hashes, r.hash))
    IN  StoreBatchFrom(ts, 1, << >>)

----------------------------------------------------------------------------
(* Arguments the callers may pass *)

GoodHashes == {hashContent(c) : c \in Contents}

\* The hashes of the contents and malformed arguments: too short, too long,
\* a non-hex character, uppercase.
HashArgs ==
    LET h == hashContent(<< >>)
        ToUpper(hash) ==
            [i \in 1..Len(hash) |->
                IF \E k \in 1..16 : HexLower[k] = hash[i]
                THEN HexUpper[CHOOSE k \in 1..16 : HexLower[k] = hash[i]]
                ELSE hash[i]]
    IN  GoodHashes \cup {SubSeq(h, 1, HashLen - 1), h \o <<"0">>,
                         [h EXCEPT ![HashLen] = "g"], ToUpper(h)}

\* The non-empty sequences of at most MaxBatch contents.
Batches == UNION {[1..n -> Contents] : n \in 1..MaxBatch}


----------------------------------------------------------------------------
(* The sequential Safe: calls made one after another on one instance.      *)

SetSafe(st) ==
    /\ disk' = st.disk
    /\ meta' = st.meta
    /\ cache' = st.cache

Store(content, fault) ==
    /\ hist.live[content] < MaxRefs
    /\ LET r == SafeStore(Traced, content, fault)
       IN  /\ SetSafe(r.st)
           /\ hist' = [r.hist EXCEPT !.rolled = FALSE]
    /\ UNCHANGED <<concVars, wsVars>>

Get(hash) ==
    /\ SetSafe(GetOp(SafeState, hash).st)
    /\ hist' = [hist EXCEPT !.rolled = FALSE]
    /\ UNCHANGED <<concVars, wsVars>>

Verify(hash) ==
    /\ SetSafe(VerifyOp(SafeState, hash).st)
    /\ hist' = [hist EXCEPT !.rolled = FALSE]
    /\ UNCHANGED <<concVars, wsVars>>

Delete(hash) ==
    /\ LET r == SafeDelete(Traced, hash)
       IN  /\ SetSafe(r.st)
           /\ hist' = [r.hist EXCEPT !.rolled = FALSE]
    /\ UNCHANGED <<concVars, wsVars>>

StoreBatch(contents, failAt, fault) ==
    /\ \A c \in Contents : hist.live[c]
            + Cardinality({i \in 1..Len(contents) : contents[i] = c}) <= MaxRefs
    /\ LET r == StoreBatchOp(Traced, contents, failAt, fault)
       IN  /\ SetSafe(r.st)
           /\ hist' = [r.hist EXCEPT !.rolled = (r.err # NoErr /\ failAt > 1)]
    /\ UNCHANGED <<concVars, wsVars>>

\* Something outside the program overwrites a blob file with other bytes.
CorruptBlob(path) ==
    /\ path \in DOMAIN disk
    /\ disk[path] # Garbage
    /\ disk' = [disk EXCEPT ![path] = Garbage]
    /\ hist' = [hist EXCEPT !.rolled = FALSE]
    /\ UNCHANGED <<meta, cache, concVars, wsVars>>

\* safe.New with Options.CacheSize = size on a root and database:
\* lru.New refuses a size that is not positive, and New returns its error;
\* otherwise the instance starts with an empty cache.
NewOp(st, size) ==
    IF size <= 0 THEN [st |-> st, err |-> "IO"]
    ELSE [st |-> [st EXCEPT !.cache = << >>], err |-> NoErr]

\* safe.New on the same root and database: a new instance, its cache empty.
New ==
    /\ cache # << >>
    /\ NewOp(SafeState, CacheSize).err = NoErr
    /\ SetSafe(NewOp(SafeState, CacheSize).st)
    /\ hist' = [hist EXCEPT !.rolled = FALSE]
    /\ UNCHANGED <<concVars, wsVars>>

EmptyMap == [x \in {} |-> << >>]

\* NewFileStore: the root directory is made and the cache map is empty.
NoObjects == [files |-> EmptyMap, cache |-> EmptyMap]

InitSafe ==
    /\ disk = EmptyMap
    /\ meta = EmptyMap
    /\ cache = << >>
    /\ hist = [live |-> [c \in Contents |-> 0], run |-> [c \in Contents |-> 0],
               dels |-> [c \in Contents |-> 0], rets |-> [c \in Contents |-> {}],
               rolled |-> FALSE]

IdleConc == pc = << >> /\ loc = << >>

IdleWs ==
    /\ files = EmptyMap
    /\ GatedChanges = EmptyMap
    /\ Tracked = {}
    /\ db = EmptyMap
    /\ events = << >>
    /\ impl = "none"
    /\ diffRun = << >>
    /\ objects = NoObjects

Init == InitSafe /\ IdleConc /\ IdleWs

Next ==
    \/ \E c \in Contents, f \in Faults : Store(c, f)
    \/ \E h \in HashArgs : Get(h)
    \/ \E h \in HashArgs : Delete(h)
    \/ \E h \in HashArgs : Verify(h)
    \/ \E p \in DOMAIN disk : CorruptBlob(p)
    \/ New

Spec == Init /\ [][Next]_vars

\* The sequential Safe with batches: Store, Get, Delete and StoreBatch calls,
\* the Store of one item of a batch possibly failing.
SpecBatch ==
    Init /\ [][\/ \E c \in Contents : Store(c, "none")
               \/ \E h \in GoodHashes : Get(h)
               \/ \E h \in GoodHashes : Delete(h)
               \/ \E q \in Batches : StoreBatch(q, 0, "none")
               \/ \E q \in Batches, f \in Faults \ {"none"} :
                       \E i \in 1..Len(q) : StoreBatch(q, i, f)
               \/ New]_vars

----------------------------------------------------------------------------
(* Properties of the sequential Safe *)

\* A blob file altered from outside the program holds Garbage (CorruptBlob
\* writes it), which the program never stores.

\* C1: n >= 1 Stores of the same bytes, made one after another from a state
\* where the hash is absent and with no Delete in between, all return the same
\* hash, leave exactly one blob file for it, and leave ref_count = n.
C1_Dedup ==
    \A c \in Contents :
        (hist.run[c] >= 1 /\ hist.dels[c] = 0) =>
            /\ Cardinality(hist.rets[c]) = 1
            /\ \A h \in hist.rets[c] :
                /\ h \in DOMAIN meta
                /\ meta[h].ref_count = hist.run[c]
                /\ Cardinality({p \in DOMAIN disk : p[1] \o p[2] = h}) = 1

C1_Witness == \E c \in Contents : hist.run[c] = 2 /\ hist.dels[c] = 0

\* C2: in every state whose blob files are intact, Store(b) followed by Get of
\* the hash it returned succeeds and returns exactly b, for every b (the empty
\* one included), whether the Get is served from the cache or from the disk.
C2_RoundTrip ==
    \A c \in Contents :
        (\A p \in DOMAIN disk : disk[p] # Garbage) =>
            LET s == StoreOp(SafeState, c, "none")
                g == GetOp(s.st, s.hash)
            IN  /\ s.err = NoErr
                /\ g.err = NoErr
                /\ g.val = c

\* The empty content is stored, not cached: the Get after the next Store reads the disk.
C2_Witness ==
    /\ hist.live[<< >>] >= 1
    /\ \A p \in DOMAIN disk : disk[p] # Garbage
    /\ ~cacheContains(cache, hashContent(<< >>))
    /\ GetOp(StoreOp(SafeState, << >>, "none").st, hashContent(<< >>)).src = "disk"

\* C3: after n Stores followed by Deletes, Exists stays true, and blob and
\* metadata stay present, after each of the first n - 1 Deletes; after the n-th
\* Delete Exists is false and blob, metadata and cache entry are gone.
C3_RefcountLifecycle ==
    \A c \in Contents :
        hist.run[c] >= 1 =>
            LET h == hashContent(c)
                present == hist.dels[c] < hist.run[c]
            IN  /\ Exists(SafeState, h, FALSE) = [val |-> present, err |-> NoErr]
                /\ (contentPath(h) \in DOMAIN disk) = present
                /\ (h \in DOMAIN meta) = present
                /\ ~present => ~cacheContains(cache, h)

C3_Witness == \E c \in Contents : hist.run[c] = 2 /\ hist.dels[c] = 2

\* C4: when the blob file of a stored hash h no longer hashes to h (its
\* metadata untouched), Get(h) fails with the integrity error, in every state
\* of the Safe.
C4_IntegrityDetected ==
    \A c \in Contents :
        LET h == hashContent(c)
        IN  (/\ h \in DOMAIN meta
             /\ contentPath(h) \in DOMAIN disk
             /\ hashContent(disk[contentPath(h)]) # h)
            => GetOp(SafeState, h).err = "HashMismatch"

C8_InvalidHash ==
    \A h \in HashArgs :
        ~(Len(h) = HashLen /\ \A i \in 1..Len(h) : h[i] \in Range(HexLower))
            => GetOp(SafeState, h).err = "InvalidHash"

----------------------------------------------------------------------------
(* The concurrent Safe.  Safe.mu is never locked, so the calls of different *)
(* goroutines interleave at every access to the cache (itself thread-safe), *)
(* to the database (one transaction per getMeta / storeMeta / deleteMeta)  *)
(* and to the file system.  All callers work on the same content.  pc[p] is *)
(* the access caller p makes next; loc[p] holds its local variables: the   *)
(* ContentMeta it read, and torn: its last Get read the metadata and then   *)
(* found the blob file missing while a Delete had removed the file and not  *)
(* yet the metadata.  hist counts the calls that returned nil or an error.  *)

Procs == 1..NumProcs

ConcContent == <<1>>


InitConc ==
    /\ disk = EmptyMap
    /\ meta = EmptyMap
    /\ cache = << >>
    /\ hist = [stores |-> 0, deletes |-> 0, gets |-> 0, failed |-> 0]
    /\ pc = [p \in Procs |-> "idle"]
    /\ loc = [p \in Procs |->
                [meta |-> [hash |-> NoHash, size |-> 0, ref_count |-> 0,
                           compressed |-> FALSE],
                 torn |-> FALSE]]
    /\ IdleWs

Goto(p, label) == pc' = [pc EXCEPT ![p] = label]

Returned(p, kind) ==
    /\ pc' = [pc EXCEPT ![p] = "idle"]
    /\ hist' = [hist EXCEPT ![kind] = @ + 1]

Begin(p, label) ==
    /\ pc[p] = "idle"
    /\ hist.stores + hist.deletes + hist.gets + hist.failed
            + Cardinality({q \in Procs : pc[q] # "idle"}) < MaxCalls
    /\ Goto(p, label)
    /\ UNCHANGED <<safeVars, hist, loc, wsVars>>


\* Store -> Exists: s.cache.Contains(hash)
StoreContains(p) ==
    /\ pc[p] = "StoreContains"
    /\ IF cacheContains(cache, hashContent(ConcContent))
       THEN Goto(p, "IncrGetMeta")
       ELSE Goto(p, "StoreExistsMeta")
    /\ UNCHANGED <<safeVars, hist, loc, wsVars>>

\* Store -> Exists: s.getMeta(hash)
StoreExistsMeta(p) ==
    /\ pc[p] = "StoreExistsMeta"
    /\ IF getMeta(SafeState, hashContent(ConcContent)).err = NoErr
       THEN Goto(p, "IncrGetMeta")
       ELSE Goto(p, "StoreWriteFile")
    /\ UNCHANGED <<safeVars, hist, loc, wsVars>>

\* Store -> incrementRefCount: meta, err := s.getMeta(hash)
IncrGetMeta(p) ==
    /\ pc[p] = "IncrGetMeta"
    /\ LET got == getMeta(SafeState, hashContent(ConcContent))
       IN  IF got.err # NoErr
           THEN Returned(p, "failed") /\ UNCHANGED loc
           ELSE /\ Goto(p, "IncrStoreMeta")
                /\ loc' = [loc EXCEPT ![p].meta = got.meta]
                /\ UNCHANGED hist
    /\ UNCHANGED <<safeVars, wsVars>>

\* Store -> incrementRefCount: meta.RefCount++; s.storeMeta(meta)
IncrStoreMeta(p) ==
    /\ pc[p] = "IncrStoreMeta"
    /\ SetSafe(storeMeta(SafeState,
                         [loc[p].meta EXCEPT !.ref_count = Uint32Inc(@)]))
    /\ Returned(p, "stores")
    /\ UNCHANGED <<loc, wsVars>>

\* Store: os.WriteFile(contentPath, content)
StoreWriteFile(p) ==
    /\ pc[p] = "StoreWriteFile"
    /\ SetSafe(writeFile(SafeState, contentPath(hashContent(ConcContent)), ConcContent))
    /\ Goto(p, "StoreStoreMeta")
    /\ UNCHANGED <<hist, loc, wsVars>>

\* Store: s.storeMeta(ContentMeta{RefCount: 1})
StoreStoreMeta(p) ==
    /\ pc[p] = "StoreStoreMeta"
    /\ SetSafe(storeMeta(SafeState,
                         [hash |-> hashContent(ConcContent), size |-> Len(ConcContent),
                          ref_count |-> 1, compressed |-> FALSE]))
    /\ Goto(p, "StoreCacheAdd")
    /\ UNCHANGED <<hist, loc, wsVars>>

\* Store: s.cache.Add(hash, content)
StoreCacheAdd(p) ==
    /\ pc[p] = "StoreCacheAdd"
    /\ cache' = cacheAdd(cache, hashContent(ConcContent), ConcContent)
    /\ Returned(p, "stores")
    /\ UNCHANGED <<disk, meta, loc, wsVars>>

\* Get: s.cache.Get(hash)
GetCache(p) ==
    /\ pc[p] = "GetCache"
    /\ LET hit == cacheGet(cache, hashContent(ConcContent))
       IN  IF hit.ok
           THEN cache' = hit.cache /\ Returned(p, "gets")
           ELSE Goto(p, "GetGetMeta") /\ UNCHANGED <<cache, hist>>
    /\ loc' = [loc EXCEPT ![p].torn = FALSE]
    /\ UNCHANGED <<disk, meta, wsVars>>

\* Get: meta, err := s.getMeta(hash)
GetGetMeta(p) ==
    /\ pc[p] = "GetGetMeta"
    /\ LET got == getMeta(SafeState, hashContent(ConcContent))
       IN  IF got.err # NoErr
           THEN Returned(p, "failed") /\ UNCHANGED loc
           ELSE /\ Goto(p, "GetReadFile")
                /\ loc' = [loc EXCEPT ![p].meta = got.meta]
                /\ UNCHANGED hist
    /\ UNCHANGED <<safeVars, wsVars>>

\* Get: os.ReadFile(contentPath), then the hash check on the bytes read
GetReadFile(p) ==
    /\ pc[p] = "GetReadFile"
    /\ IF contentPath(hashContent(ConcContent)) \notin DOMAIN disk
       THEN /\ Returned(p, "failed")
            /\ loc' = [loc EXCEPT ![p].torn =
                         /\ hashContent(ConcContent) \in DOMAIN meta
                         /\ \E q \in Procs \ {p} : pc[q] = "DeleteMeta"]
       ELSE IF hashContent(disk[contentPath(hashContent(ConcContent))]) # hashContent(ConcContent)
       THEN Returned(p, "failed") /\ UNCHANGED loc
       ELSE Goto(p, "GetCacheAdd") /\ UNCHANGED <<hist, loc>>
    /\ UNCHANGED <<safeVars, wsVars>>

\* Get: s.cache.Add(hash, content)
GetCacheAdd(p) ==
    /\ pc[p] = "GetCacheAdd"
    /\ cache' = cacheAdd(cache, hashContent(ConcContent), ConcContent)
    /\ Goto(p, "GetStoreMeta")
    /\ UNCHANGED <<disk, meta, hist, loc, wsVars>>

\* Get: meta.AccessedAt = time.Now(); s.storeMeta(meta)
GetStoreMeta(p) ==
    /\ pc[p] = "GetStoreMeta"
    /\ SetSafe(storeMeta(SafeState, loc[p].meta))
    /\ Returned(p, "gets")
    /\ UNCHANGED <<loc, wsVars>>

\* Delete: meta, err := s.getMeta(hash); meta.RefCount--
DeleteGetMeta(p) ==
    /\ pc[p] = "DeleteGetMeta"
    /\ LET got == getMeta(SafeState, hashContent(ConcContent))
           rc  == Uint32Dec(got.meta.ref_count)
       IN  IF got.err # NoErr
           THEN Returned(p, "failed") /\ UNCHANGED loc
           ELSE /\ Goto(p, IF rc = 0 THEN "DeleteRemove" ELSE "DeleteStoreMeta")
                /\ loc' = [loc EXCEPT ![p].meta = [got.meta EXCEPT !.ref_count = rc]]
                /\ UNCHANGED hist
    /\ UNCHANGED <<safeVars, wsVars>>

\* Delete, RefCount == 0: os.Remove(contentPath)
DeleteRemove(p) ==
    /\ pc[p] = "DeleteRemove"
    /\ SetSafe(removeFile(SafeState, contentPath(hashContent(ConcContent))))
    /\ Goto(p, "DeleteMeta")
    /\ UNCHANGED <<hist, loc, wsVars>>

\* Delete, RefCount == 0: s.deleteMeta(hash)
DeleteMeta(p) ==
    /\ pc[p] = "DeleteMeta"
    /\ SetSafe(deleteMeta(SafeState, hashContent(ConcContent)))
    /\ Goto(p, "DeleteCacheRemove")
    /\ UNCHANGED <<hist, loc, wsVars>>

\* Delete, RefCount == 0: s.cache.Remove(hash)
DeleteCacheRemove(p) ==
    /\ pc[p] = "DeleteCacheRemove"
    /\ cache' = cacheRemove(cache, hashContent(ConcContent))
    /\ Returned(p, "deletes")
    /\ UNCHANGED <<disk, meta, loc, wsVars>>

\* Delete, RefCount > 0: s.storeMeta(meta)
DeleteStoreMeta(p) ==
    /\ pc[p] = "DeleteStoreMeta"
    /\ SetSafe(storeMeta(SafeState, loc[p].meta))
    /\ Returned(p, "deletes")
    /\ UNCHANGED <<loc, wsVars>>

SpecConc ==
    InitConc /\ [][\E p \in Procs :
                       \/ Begin(p, "StoreContains") \/ Begin(p, "GetCache") \/ Begin(p, "DeleteGetMeta")
                       \/ StoreContains(p) \/ StoreExistsMeta(p)
                       \/ IncrGetMeta(p) \/ IncrStoreMeta(p)
                       \/ StoreWriteFile(p) \/ StoreStoreMeta(p) \/ StoreCacheAdd(p)
                       \/ GetCache(p) \/ GetGetMeta(p) \/ GetReadFile(p)
                       \/ GetCacheAdd(p) \/ GetStoreMeta(p)
                       \/ DeleteGetMeta(p) \/ DeleteRemove(p) \/ DeleteMeta(p)
                       \/ DeleteCacheRemove(p) \/ DeleteStoreMeta(p)]_vars

\* C5: once concurrent Store, Get and Delete calls on one hash have all
\* returned, all with success, ref_count is the number of Stores minus the
\* number of Deletes, and metadata and blob are both absent exactly when that
\* number is zero.
C5_NoLostUpdate ==
    ((\A p \in Procs : pc[p] = "idle") /\ hist.failed = 0) =>
        IF hist.stores - hist.deletes = 0
        THEN hashContent(ConcContent) \notin DOMAIN meta /\ contentPath(hashContent(ConcContent)) \notin DOMAIN disk
        ELSE /\ hashContent(ConcContent) \in DOMAIN meta
             /\ contentPath(hashContent(ConcContent)) \in DOMAIN disk
             /\ meta[hashContent(ConcContent)].ref_count = hist.stores - hist.deletes

\* C6: no Get running concurrently with a Delete that brings ref_count to
\* zero reads the metadata and then finds the blob file gone while the
\* metadata is still there.
C6_NoTornRead == \A p \in Procs : ~loc[p].torn

----------------------------------------------------------------------------
(* The working tree.  A relative path is the sequence of its components;   *)
(* "." is the workspace root.                                              *)

RootDir  == <<".">>
FileA    == <<"file.txt">>
FileB    == <<"src", "main.go">>
FileHead == <<".tig", "HEAD">>

\* utils.HashContent: SHA-256 in lowercase hex, as the Safe's hashContent.
HashContent(content) == DigestTable[content]

\* filepath.Clean followed by filepath.Rel(Root, Join(Root, path)).
cleanPath(path) ==
    LET kept == SelectSeq(path, LAMBDA part : part # "." /\ part # "")
    IN  IF kept = << >> THEN RootDir ELSE kept

IgnoredNames == {"node_modules", "vendor", "dist", "build", ".git", ".tig"}

\* LocalWorkspace.shouldIgnore; strings.HasPrefix(part, ".") over the
\* component names of the model.
shouldIgnore(path) ==
    IF path = << >> THEN TRUE
    ELSE IF cleanPath(path) = RootDir THEN FALSE
    ELSE \E i \in DOMAIN path :
            path[i] # "" /\ (\/ path[i] \in {".", ".tig", ".git", ".env"}
                             \/ path[i] \in IgnoredNames)

\* AutoTracker.ShouldIgnore: only the names of ignoreDirs.
ShouldIgnore(path) ==
    IF path = << >> THEN TRUE
    ELSE \E i \in DOMAIN path : path[i] \in IgnoredNames

IsUnder(dir, p) ==
    dir = RootDir \/ (Len(p) > Len(dir) /\ SubSeq(p, 1, Len(dir)) = dir)

\* os.Stat: a directory exists when a file lies under it.
isDir(fs, path) ==
    path = RootDir \/ \E p \in DOMAIN fs : path # p /\ IsUnder(path, p)

pathExists(fs, path) == path \in DOMAIN fs \/ isDir(fs, path)

\* filepath.WalkDir: the files under dir, in lexical order (of the files a
\* working tree can hold: .tig/HEAD, file.txt, src/main.go).
walkDir(fs, dir) ==
    SelectSeq(<<FileHead, FileA, FileB>>, LAMBDA p : p \in DOMAIN fs /\ IsUnder(dir, p))

Put(f, k, v) == [x \in DOMAIN f \cup {k} |-> IF x = k THEN v ELSE f[x]]
Drop(f, k)   == [x \in DOMAIN f \ {k} |-> f[x]]

----------------------------------------------------------------------------
(* shared.Change and its JSON form *)

NewChange(path, type, newHash, size) ==
    [path |-> path, type |-> type, old_path |-> << >>, old_hash |-> NoHash,
     new_hash |-> newHash, size |-> size, gated |-> TRUE]

\* json.Marshal of a Change: the fields under their json tags, in struct
\* order (diff, diff_hunks and content are empty here and omitted).
marshalChange(c) ==
    << <<"path", c.path>>, <<"type", c.type>>, <<"old_path", c.old_path>>,
       <<"old_hash", c.old_hash>>, <<"new_hash", c.new_hash>>,
       <<"size", c.size>>, <<"gated", c.gated>> >>

jsonField(j, key) == j[CHOOSE i \in DOMAIN j : j[i][1] = key][2]

\* json.Unmarshal into a Change.
unmarshalChange_NoOldHash(j) ==
    [path |-> jsonField(j, "path"), type |-> jsonField(j, "type"),
     old_path |-> jsonField(j, "old_path"),
     old_hash |-> <<"0">>,
     new_hash |-> jsonField(j, "new_hash"),
     size |-> jsonField(j, "size"), gated |-> jsonField(j, "gated")]
unmarshalChange(j) ==
    [path |-> jsonField(j, "path"), type |-> jsonField(j, "type"),
     old_path |-> jsonField(j, "old_path"),
     old_hash |-> jsonField(j, "old_hash"),
     new_hash |-> jsonField(j, "new_hash"),
     size |-> jsonField(j, "size"), gated |-> jsonField(j, "gated")]

gatedKey(path)   == <<"gated:", path>>

\* The state a workspace or tracker operation works on.
WsState ==
    [files |-> files, GatedChanges |-> GatedChanges, Tracked |-> Tracked,
     db |-> db, st |-> SafeState]

----------------------------------------------------------------------------
(* LocalWorkspace.Gate.  failing is the set of files whose Store meets a   *)
(* failing database; saveFault makes the final transaction fail.           *)

FaultFor(failing, path) == IF path \in failing THEN "db" ELSE "none"

\* LocalWorkspace.gateFile.
gateFile_StoreUnchecked(w, relPath, fault) ==
    IF relPath \notin DOMAIN w.files THEN [w |-> w, err |-> "IO"]
    ELSE LET content == w.files[relPath]
             stored  == StoreOp(w.st, content, fault)
             type    == IF relPath \in DOMAIN w.GatedChanges
                        THEN "modify" ELSE "add"
             change  == NewChange(relPath, type, HashContent(content),
                                  Len(content))
         IN  IF FALSE
             THEN [w |-> [w EXCEPT !.st = stored.st], err |-> stored.err]
             ELSE [w |-> [w EXCEPT !.st = stored.st,
                                   !.GatedChanges = Put(@, relPath, change)],
                   err |-> NoErr]
gateFile(w, relPath, fault) ==
    IF relPath \notin DOMAIN w.files THEN [w |-> w, err |-> "IO"]
    ELSE LET content == w.files[relPath]
             stored  == StoreOp(w.st, content, fault)
             type    == IF relPath \in DOMAIN w.GatedChanges
                        THEN "modify" ELSE "add"
             change  == NewChange(relPath, type, HashContent(content),
                                  Len(content))
         IN  IF stored.err # NoErr
             THEN [w |-> [w EXCEPT !.st = stored.st], err |-> stored.err]
             ELSE [w |-> [w EXCEPT !.st = stored.st,
                                   !.GatedChanges = Put(@, relPath, change)],
                   err |-> NoErr]

\* The loop of LocalWorkspace.Gate over its arguments; gateWalk is the
\* WalkDir callback over the files of a directory.
RECURSIVE gatePaths(_, _, _, _)
gatePaths(w, processed, paths, failing) ==
    IF paths = << >> THEN w
    ELSE LET RECURSIVE gateWalk(_, _, _)
             gateWalk(v, done, walk) ==
                IF walk = << >> THEN [w |-> v, processed |-> done]
                ELSE LET p == Head(walk)
                         f == gateFile(v, p, FaultFor(failing, p))
                     IN  IF p \in done \/ shouldIgnore(p)
                         THEN gateWalk(v, done, Tail(walk))
                         ELSE IF f.err # NoErr
                         THEN gateWalk(f.w, done, Tail(walk))
                         ELSE gateWalk(f.w, done \cup {p}, Tail(walk))
             relPath == cleanPath(Head(paths))
             rest    == Tail(paths)
             walked  == gateWalk(w, processed, walkDir(w.files, relPath))
             g       == gateFile(w, relPath, FaultFor(failing, relPath))
         IN  IF relPath \in processed \/ shouldIgnore(relPath)
             THEN gatePaths(w, processed, rest, failing)
             ELSE IF ~pathExists(w.files, relPath)
             THEN IF relPath \in DOMAIN w.GatedChanges
                     /\ w.GatedChanges[relPath].type = "delete"
                  THEN gatePaths(w, processed \cup {relPath}, rest, failing)
                  ELSE gatePaths(w, processed, rest, failing)
             ELSE IF isDir(w.files, relPath)
             THEN gatePaths(walked.w, walked.processed, rest, failing)
             ELSE IF g.err # NoErr
             THEN gatePaths(g.w, processed, rest, failing)
             ELSE gatePaths(g.w, processed \cup {relPath}, rest, failing)

\* LocalWorkspace.saveGatedChanges: one transaction that sets gated:<path>
\* for every entry of the map.
saveGatedChanges(w, saveFault) ==
    IF saveFault THEN [w |-> w, err |-> "IO"]
    ELSE LET keys == {gatedKey(p) : p \in DOMAIN w.GatedChanges}
         IN  [w |-> [w EXCEPT !.db =
                        [k \in DOMAIN w.db \cup keys |->
                            IF k \in keys
                            THEN marshalChange(w.GatedChanges[k[2]])
                            ELSE w.db[k]]],
              err |-> NoErr]

\* LocalWorkspace.Gate.
WorkspaceGate(w, paths, failing, saveFault) ==
    IF paths = << >> THEN [w |-> w, err |-> "NoPaths"]
    ELSE saveGatedChanges(gatePaths(w, {}, paths, failing), saveFault)

\* LocalWorkspace.LoadGatedChanges: the map is rebuilt from the gated: keys.
LoadGatedChangesOp(w) ==
    LET keys == {k \in DOMAIN w.db : k[1] = "gated:"}
    IN  [w EXCEPT !.GatedChanges =
            [p \in {k[2] : k \in keys} |-> unmarshalChange(w.db[gatedKey(p)])]]

----------------------------------------------------------------------------
(* LocalTracker.Gate and AutoTracker.Gate *)

\* LocalTracker.Gate.  The map and the database are keyed by the path as
\* given; the file is found at Join(Root, path).
TrackerGate(w, path, fault, dbFault) ==
    LET absPath == cleanPath(path)
        content == w.files[absPath]
        stored  == StoreOp(w.st, content, fault)
        change  == NewChange(path, "modify", HashContent(content),
                             Len(content))
        gated   == [w EXCEPT !.st = stored.st,
                             !.GatedChanges = Put(@, path, change)]
    IN  IF ~pathExists(w.files, absPath) THEN [w |-> w, err |-> "NotExist"]
        ELSE IF absPath \notin DOMAIN w.files THEN [w |-> w, err |-> "IO"]
        ELSE IF stored.err # NoErr
        THEN [w |-> [w EXCEPT !.st = stored.st], err |-> stored.err]
        ELSE IF dbFault THEN [w |-> gated, err |-> "IO"]
        ELSE [w |-> [gated EXCEPT
                        !.db = Put(@, gatedKey(path), marshalChange(change))],
              err |-> NoErr]

\* AutoTracker.gateFile.
autoGateFile(w, relPath, fault) ==
    IF ShouldIgnore(relPath) THEN [w |-> w, err |-> NoErr]
    ELSE IF relPath \notin DOMAIN w.files THEN [w |-> w, err |-> "IO"]
    ELSE LET content == w.files[relPath]
             stored  == StoreOp(w.st, content, fault)
             type    == IF relPath \in w.Tracked THEN "modify" ELSE "add"
             change  == NewChange(relPath, type, HashContent(content),
                                  Len(content))
         IN  IF stored.err # NoErr
             THEN [w |-> [w EXCEPT !.st = stored.st], err |-> stored.err]
             ELSE [w |-> [w EXCEPT !.st = stored.st,
                                   !.GatedChanges = Put(@, relPath, change),
                                   !.Tracked = @ \cup {relPath}],
                   err |-> NoErr]

\* AutoTracker.Gate.  In the WalkDir callback the first error of gateFile
\* ends the walk.
AutoGate(w, path, failing) ==
    LET RECURSIVE autoGateWalk(_, _)
        autoGateWalk(v, walk) ==
            IF walk = << >> THEN [w |-> v, err |-> NoErr]
            ELSE LET g == autoGateFile(v, Head(walk), FaultFor(failing, Head(walk)))
                 IN  IF g.err # NoErr THEN g
                     ELSE autoGateWalk(g.w, Tail(walk))
        absPath == cleanPath(path)
        deleted == [path |-> path, type |-> "delete", old_path |-> << >>,
                    old_hash |-> NoHash, new_hash |-> NoHash, size |-> 0,
                    gated |-> TRUE]
    IN  IF ~pathExists(w.files, absPath)
        THEN IF path \in w.Tracked
             THEN [w |-> [w EXCEPT !.GatedChanges = Put(@, path, deleted)],
                   err |-> NoErr]
             ELSE [w |-> w, err |-> "NotExist"]
        ELSE IF isDir(w.files, absPath)
        THEN autoGateWalk(w, walkDir(w.files, absPath))
        ELSE autoGateFile(w, absPath, FaultFor(failing, absPath))

\* AutoTracker.initializeTracking: every file not ignored is tracked.
initializeTracking(fs) == {p \in DOMAIN fs : ~ShouldIgnore(p)}

\* LocalTracker.saveTrackedFiles: the tracked: keys are replaced by the set.
saveTrackedFiles(w) ==
    LET kept == {k \in DOMAIN w.db : k[1] # "tracked:"}
        keys == {<<"tracked:", p>> : p \in w.Tracked}
    IN  [w EXCEPT !.db = [k \in kept \cup keys |->
                            IF k \in keys THEN << >> ELSE w.db[k]]]

\* AutoTracker.handleFSEvent.
handleFSEvent(w, event) ==
    IF ShouldIgnore(event.name) THEN w
    ELSE saveTrackedFiles(
            [w EXCEPT !.Tracked = IF event.op \in {"Create", "Write"}
                                  THEN @ \cup {event.name}
                                  ELSE @ \ {event.name}])

----------------------------------------------------------------------------
(* The workspace as a state machine: one instance, of one implementation,  *)
(* over a working tree that the user edits.                                *)

Impls == {"LocalWorkspace", "LocalTracker", "AutoTracker"}

\* The user edits file.txt; src/main.go and the repository's own .tig/HEAD
\* are there from the start and stay as they are.
UserFiles  == {FileA}
GatedFiles == {FileA, FileB}
BaseTree   == [p \in {FileHead, FileB} |-> IF p = FileB THEN <<1>> ELSE << >>]

TrackerArgs == {FileA, FileB, <<"src">>, RootDir, FileHead}
GateLists   == {<<a>> : a \in TrackerArgs \cup {<<".", "file.txt">>}}
                    \cup {<< >>, <<FileA, <<".", "file.txt">>>>}

SetWs(w) ==
    /\ files' = w.files
    /\ GatedChanges' = w.GatedChanges
    /\ Tracked' = w.Tracked
    /\ db' = w.db
    /\ SetSafe(w.st)

\* The reference counts stay within the bound.
WithinRefs(w) ==
    \A h \in DOMAIN w.st.meta : w.st.meta[h].ref_count \in 0..MaxRefs

GateWorkspace(paths, failing, saveFault) ==
    /\ impl = "LocalWorkspace"
    /\ LET r == WorkspaceGate(WsState, paths, failing, saveFault)
       IN  WithinRefs(r.w) /\ SetWs(r.w)
    /\ UNCHANGED <<hist, concVars, events, impl, diffRun, objects>>

GateTracker(path, fault, dbFault) ==
    /\ impl = "LocalTracker"
    /\ LET r == TrackerGate(WsState, path, fault, dbFault)
       IN  WithinRefs(r.w) /\ SetWs(r.w)
    /\ UNCHANGED <<hist, concVars, events, impl, diffRun, objects>>

GateAuto(path, failing) ==
    /\ impl = "AutoTracker"
    /\ LET r == AutoGate(WsState, path, failing)
       IN  WithinRefs(r.w) /\ SetWs(r.w)
    /\ UNCHANGED <<hist, concVars, events, impl, diffRun, objects>>

\* The watcher reports an edit of the tree to an AutoTracker.
Notify(op, path) ==
    IF impl = "AutoTracker"
    THEN /\ Len(events) < MaxEvents
         /\ events' = Append(events, [op |-> op, name |-> path])
    ELSE UNCHANGED events

\* The user writes a file.
WriteFile(path, content) ==
    /\ impl \in Impls
    /\ IF path \in DOMAIN files THEN files[path] # content ELSE TRUE
    /\ files' = Put(files, path, content)
    /\ Notify(IF path \in DOMAIN files THEN "Write" ELSE "Create", path)
    /\ UNCHANGED <<safeVars, hist, concVars, GatedChanges, Tracked, db, impl, diffRun, objects>>

\* The user removes a file.
RemoveFile(path) ==
    /\ impl \in Impls
    /\ path \in DOMAIN files
    /\ files' = Drop(files, path)
    /\ Notify("Remove", path)
    /\ UNCHANGED <<safeVars, hist, concVars, GatedChanges, Tracked, db, impl, diffRun, objects>>

\* AutoTracker.watchLoop takes the next event.
HandleFSEvent ==
    /\ impl = "AutoTracker"
    /\ events # << >>
    /\ SetWs(handleFSEvent(WsState, Head(events)))
    /\ events' = Tail(events)
    /\ UNCHANGED <<hist, concVars, impl, diffRun, objects>>

\* The process ends and a new one opens the repository: NewLocalWorkspace
\* loads the gated map; NewLocalTracker starts from empty maps and
\* NewAutoTracker walks the tree.  The Safe's cache starts empty.
Reopen ==
    /\ impl \in Impls
    /\ LET fresh == [WsState EXCEPT !.st.cache = << >>,
                                    !.GatedChanges = EmptyMap,
                                    !.Tracked = {}]
       IN  SetWs(CASE impl = "LocalWorkspace" -> LoadGatedChangesOp(fresh)
                   [] impl = "LocalTracker" -> fresh
                   [] impl = "AutoTracker" ->
                        [fresh EXCEPT !.Tracked = initializeTracking(files)])
    /\ events' = << >>
    /\ UNCHANGED <<hist, concVars, impl, diffRun, objects>>

InitWs ==
    /\ InitSafe
    /\ IdleConc
    /\ impl \in Impls
    /\ files \in {BaseTree} \cup {Put(BaseTree, FileA, c) : c \in Contents}
    /\ GatedChanges = EmptyMap
    /\ Tracked = IF impl = "AutoTracker" THEN initializeTracking(files) ELSE {}
    /\ db = EmptyMap
    /\ events = << >>
    /\ diffRun = << >>
    /\ objects = NoObjects

SpecWs ==
    InitWs /\ [][\/ \E l \in GateLists, failing \in SUBSET GatedFiles, sf \in BOOLEAN :
                         GateWorkspace(l, failing, sf)
                 \/ \E a \in TrackerArgs, f \in {"none", "db"}, df \in BOOLEAN :
                         GateTracker(a, f, df)
                 \/ \E a \in TrackerArgs, failing \in SUBSET GatedFiles :
                         GateAuto(a, failing)
                 \/ \E p \in UserFiles, c \in Contents : WriteFile(p, c)
                 \/ \E p \in UserFiles : RemoveFile(p)
                 \/ HandleFSEvent
                 \/ Reopen]_vars

----------------------------------------------------------------------------
(* Properties of Gate *)

\* Gate of one path with nothing failing, by the instance's implementation.
GateCall(w, path) ==
    CASE impl = "LocalWorkspace" -> WorkspaceGate(w, <<path>>, {}, FALSE)
      [] impl = "LocalTracker"   -> TrackerGate(w, path, "none", FALSE)
      [] impl = "AutoTracker"    -> AutoGate(w, path, {})

\* C9: Gate on an existing file with no entry in the gated map records a
\* Change of type add; Gate on a path that has an entry, after the content
\* was modified, records type modify with a new_hash different from the
\* entry's; either way new_hash is the SHA-256 of the content at gating time
\* and gated is true.
C9_GateAddThenModify ==
    \A p \in GatedFiles :
        p \in DOMAIN files =>
            LET after == GateCall(WsState, p).w.GatedChanges
                now   == HashContent(files[p])
            IN  /\ p \in DOMAIN after
                /\ after[p].new_hash = now
                /\ after[p].gated
                /\ p \notin DOMAIN GatedChanges => after[p].type = "add"
                /\ (p \in DOMAIN GatedChanges /\ GatedChanges[p].new_hash # now)
                      => /\ after[p].type = "modify"
                         /\ after[p].new_hash # GatedChanges[p].new_hash

\* C10: when Gate returns without error, every entry of the in-memory gated
\* map has a durable record gated:<path> holding the same Change, and a Gate
\* whose persistence step fails returns an error.
C10_GatePersists ==
    LET Persisted(w) ==
            \A p \in DOMAIN w.GatedChanges :
                /\ gatedKey(p) \in DOMAIN w.db
                /\ unmarshalChange(w.db[gatedKey(p)]) = w.GatedChanges[p]
    IN
        CASE impl = "LocalWorkspace" ->
                \A l \in GateLists, failing \in SUBSET GatedFiles, sf \in BOOLEAN :
                    LET r == WorkspaceGate(WsState, l, failing, sf)
                    IN  /\ r.err = NoErr => Persisted(r.w)
                        /\ sf => r.err # NoErr
          [] impl = "LocalTracker" ->
                \A a \in TrackerArgs, f \in {"none", "db"}, df \in BOOLEAN :
                    LET r == TrackerGate(WsState, a, f, df)
                    IN  /\ r.err = NoErr => Persisted(r.w)
                        /\ df => r.err # NoErr
          [] impl = "AutoTracker" ->
                \A a \in TrackerArgs, failing \in SUBSET GatedFiles :
                    LET r == AutoGate(WsState, a, failing)
                    IN  r.err = NoErr => Persisted(r.w)
          [] OTHER -> TRUE

----------------------------------------------------------------------------
(* FileState records, Ungate and CleanupGatedChanges *)

fileStateKey(path) == <<"file_state:", path>>

\* getFileState: the record file_state:<path>, read by json.Unmarshal into a
\* FileState (mod_time left out), or ErrKeyNotFound.
getFileState(w, path) ==
    LET j == w.db[fileStateKey(path)]
    IN  IF fileStateKey(path) \in DOMAIN w.db
        THEN [ok |-> TRUE, state |-> [hash |-> jsonField(j, "hash"),
                                      size |-> jsonField(j, "size")]]
        ELSE [ok |-> FALSE, state |-> [hash |-> NoHash, size |-> 0]]


\* LocalWorkspace.Ungate.  Each path is removed from the map and the key
\* gatedChangePrefix + path (const gatedChangePrefix = "gated/") is deleted
\* in a transaction of its own; with dbFault the first transaction fails.
UngateOp_Clear(w, paths, dbFault) ==
    IF paths = << >> THEN [w |-> w, err |-> NoErr]
    ELSE [w |-> [w EXCEPT !.GatedChanges = EmptyMap,
                          !.db = Drop(@, <<"gated/", Head(paths)>>)],
          err |-> IF dbFault THEN "IO" ELSE NoErr]

RECURSIVE UngateOp(_, _, _)
UngateOp(w, paths, dbFault) ==
    IF paths = << >> THEN [w |-> w, err |-> NoErr]
    ELSE LET removed == [w EXCEPT !.GatedChanges = Drop(@, Head(paths))]
         IN  IF dbFault THEN [w |-> removed, err |-> "IO"]
             ELSE UngateOp([removed EXCEPT !.db = Drop(@, <<"gated/", Head(paths)>>)],
                           Tail(paths), FALSE)

\* LocalWorkspace.CleanupGatedChanges: the entries whose file is missing and
\* whose blob is not found are deleted from the map (and only from the map).
\* The hash checked is NewHash, else OldHash, and the blob is looked for at
\* Join(Root, ".tig", "content", newHash[:2], newHash), inside the Safe's root.
CleanupOp(w) ==
    LET contentPath_(hash) == <<SubSeq(hash, 1, ShardLen), hash>>
        cleanupHash(change) ==
            IF change.new_hash # NoHash THEN change.new_hash
            ELSE change.old_hash
        toRemove ==
            {p \in DOMAIN w.GatedChanges :
                /\ ~pathExists(w.files, cleanPath(p))
                /\ Len(cleanupHash(w.GatedChanges[p])) >= ShardLen
                /\ contentPath_(cleanupHash(w.GatedChanges[p]))
                        \notin DOMAIN w.st.disk}
    IN  [w EXCEPT !.GatedChanges = [p \in DOMAIN @ \ toRemove |-> @[p]]]

----------------------------------------------------------------------------
(* Status *)

RECURSIVE SeqOfSet(_)
SeqOfSet(S) ==
    IF S = {} THEN << >>
    ELSE LET x == CHOOSE x \in S : TRUE IN <<x>> \o SeqOfSet(S \ {x})

\* A Change of Status for a path that is not gated.
Ungated(path, type, hash, size) ==
    [NewChange(path, type, hash, size) EXCEPT !.gated = FALSE]

\* The Changes the callbacks of a walk append, in the order of the walk.
RECURSIVE Concat(_)
Concat(seqs) ==
    IF seqs = << >> THEN << >> ELSE Head(seqs) \o Concat(Tail(seqs))

\* LocalWorkspace.Status, the callback: a file not gated and not ignored is
\* "modify" when getFileState finds a record and "untracked" otherwise.
workspaceVisit_Seen(w, p) ==
    IF shouldIgnore(p) THEN << >>
    ELSE << Ungated(p, IF getFileState(w, p).ok THEN "modify" ELSE "untracked",
                    HashContent(w.files[p]), Len(w.files[p])) >>

workspaceVisit(w, p) ==
    IF p \in DOMAIN w.GatedChanges \/ shouldIgnore(p) THEN << >>
    ELSE << Ungated(p, IF getFileState(w, p).ok THEN "modify" ELSE "untracked",
                    HashContent(w.files[p]), Len(w.files[p])) >>

\* LocalWorkspace.Status: the gated Changes, the files of the walk, and a
\* delete for every FileState whose path is not gated and whose file is gone.
WorkspaceStatus(w) ==
    SeqOfSet({w.GatedChanges[p] : p \in DOMAIN w.GatedChanges})
    \o Concat([i \in 1..Len(walkDir(w.files, RootDir)) |->
                    workspaceVisit(w, walkDir(w.files, RootDir)[i])])
    \o SeqOfSet({Ungated(k[2], "delete", NoHash, 0) :
                    k \in {k \in DOMAIN w.db :
                            /\ k[1] = "file_state:"
                            /\ k[2] \notin DOMAIN w.GatedChanges
                            /\ ~pathExists(w.files, cleanPath(k[2]))}})

\* AutoTracker.Status.  The callback of the walk appends the gated Change of
\* a gated file, else "modify" for a tracked file and "untracked" for any
\* other; then comes a delete for every tracked path whose file is gone.
AutoStatus(w) ==
    LET autoVisit(p) ==
            IF ShouldIgnore(p) THEN << >>
            ELSE IF p \in DOMAIN w.GatedChanges
            THEN << [w.GatedChanges[p] EXCEPT !.gated = TRUE] >>
            ELSE << Ungated(p, IF p \in w.Tracked THEN "modify"
                               ELSE "untracked",
                            HashContent(w.files[p]), Len(w.files[p])) >>
    IN  Concat([i \in 1..Len(walkDir(w.files, RootDir)) |->
                    autoVisit(walkDir(w.files, RootDir)[i])])
        \o SeqOfSet({Ungated(p, "delete", NoHash, 0) :
                        p \in {p \in w.Tracked :
                                ~pathExists(w.files, cleanPath(p))}})

----------------------------------------------------------------------------
(* Track and Untrack *)

\* LocalTracker.Track: the files named, or lying under a directory named,
\* join the tracked set, which is then saved.
RECURSIVE TrackerTrack(_, _)
TrackerTrack(w, paths) ==
    IF paths = << >> THEN [w |-> saveTrackedFiles(w), err |-> NoErr]
    ELSE LET absPath == cleanPath(Head(paths))
             found   == IF isDir(w.files, absPath)
                        THEN Range(walkDir(w.files, absPath))
                        ELSE {absPath}
         IN  IF ~pathExists(w.files, absPath) THEN [w |-> w, err |-> "NotExist"]
             ELSE TrackerTrack([w EXCEPT !.Tracked = @ \cup found], Tail(paths))

\* LocalTracker.Untrack: each path leaves the tracked set and deleteFileState
\* deletes its file_state: key; the tracked set is then saved.
RECURSIVE TrackerUntrack(_, _, _)
TrackerUntrack(w, paths, dbFault) ==
    IF paths = << >> THEN [w |-> saveTrackedFiles(w), err |-> NoErr]
    ELSE LET removed == [w EXCEPT !.Tracked = @ \ {Head(paths)}]
         IN  IF dbFault THEN [w |-> removed, err |-> "IO"]
             ELSE TrackerUntrack(
                    [removed EXCEPT !.db = Drop(@, fileStateKey(Head(paths)))],
                    Tail(paths), FALSE)

\* AutoTracker.Untrack: the paths leave the tracked set, which is then saved.
AutoUntrack(w, paths, dbFault) ==
    LET removed == [w EXCEPT !.Tracked = @ \ Range(paths)]
    IN  IF dbFault THEN [w |-> removed, err |-> "IO"]
        ELSE [w |-> saveTrackedFiles(removed), err |-> NoErr]

----------------------------------------------------------------------------
(* ShowFileDiff.  All three implementations end with Engine.Diff(oldContent, *)
(* currentContent) on an engine of three context lines; the result here is  *)
(* the pair of contents handed to the engine, or the error returned before. *)

\* LocalWorkspace.ShowFileDiff.
WorkspaceShowFileDiff(w, path) ==
    LET absPath == cleanPath(path)
        prev    == getFileState(w, path)
        got     == GetOp(w.st, prev.state.hash)
    IN  IF absPath \notin DOMAIN w.files
        THEN [old |-> << >>, new |-> << >>, err |-> "IO"]
        ELSE [old |-> IF prev.ok /\ got.err = NoErr THEN got.val ELSE << >>,
              new |-> w.files[absPath],
              err |-> NoErr]

\* LocalTracker.ShowFileDiff.
TrackerShowFileDiff(w, path) ==
    LET absPath == cleanPath(path)
        prev    == getFileState(w, path)
        got     == GetOp(w.st, prev.state.hash)
    IN  IF absPath \notin DOMAIN w.files
        THEN [old |-> << >>, new |-> << >>, err |-> "IO"]
        ELSE IF ~prev.ok
        THEN [old |-> << >>, new |-> << >>, err |-> "NotTracked"]
        ELSE IF got.err # NoErr
        THEN [old |-> << >>, new |-> << >>, err |-> got.err]
        ELSE [old |-> got.val, new |-> w.files[absPath], err |-> NoErr]

\* AutoTracker.ShowFileDiff: the old content is asked for under the hash of
\* the current content.
AutoShowFileDiff(w, path) ==
    LET absPath == cleanPath(path)
        got     == GetOp(w.st, HashContent(w.files[absPath]))
    IN  IF absPath \notin DOMAIN w.files
        THEN [old |-> << >>, new |-> << >>, err |-> "IO"]
        ELSE [old |-> IF got.err = NoErr THEN got.val ELSE << >>,
              new |-> w.files[absPath],
              err |-> NoErr]

----------------------------------------------------------------------------
(* CreateChangeSet *)

\* The orders in which a range over the gated map can yield its entries.
Orders(S) ==
    {q \in [1..Cardinality(S) -> S] : \A i, j \in DOMAIN q : q[i] = q[j] => i = j}

\* LocalTracker.hashChangeSet: SHA-256 over path, type, new_hash and old_hash
\* of the changes in the order given; the digest stands for the bytes hashed.
hashChangeSet(changes) ==
    [i \in DOMAIN changes |->
        <<changes[i].path, changes[i].type, changes[i].new_hash,
          changes[i].old_hash>>]

NoChangeSet == [id |-> 0, changes |-> << >>, description |-> "", hash |-> << >>]

\* LocalTracker.storeChangeSet: the changeset, its time index and a path
\* index for each change, in one transaction.
storeChangeSet(w, cs) ==
    LET keys == {<<"changeset:", cs.id>>, <<"cs_time:", cs.id>>}
                \cup {<<"cs_path:", <<cs.changes[i].path, cs.id>>>> :
                        i \in DOMAIN cs.changes}
    IN  [w EXCEPT !.db = [k \in DOMAIN @ \cup keys |->
                            IF k = <<"changeset:", cs.id>> THEN cs
                            ELSE IF k \in keys THEN << >> ELSE @[k]]]

\* LocalTracker.CreateChangeSet.  order is the order in which the range over
\* the gated map yields the paths, id the uuid drawn.
CreateChangeSetOp_DropLast(w, description, order, id, dbFault) ==
    LET kept    == SubSeq(order, 1, Len(order) - 1)
        changes == [i \in DOMAIN kept |-> w.GatedChanges[kept[i]]]
        cs      == [id |-> id, changes |-> changes,
                    description |-> description,
                    hash |-> hashChangeSet(changes)]
    IN  IF changes = << >> /\ description = "status"
        THEN [w |-> w, cs |-> [NoChangeSet EXCEPT !.description = description],
              err |-> NoErr]
        ELSE IF changes = << >>
        THEN [w |-> w, cs |-> NoChangeSet, err |-> "NoChanges"]
        ELSE IF dbFault THEN [w |-> w, cs |-> NoChangeSet, err |-> "IO"]
        ELSE [w |-> storeChangeSet(w, cs), cs |-> cs, err |-> NoErr]

CreateChangeSetOp_ClearsGated(w, description, order, id, dbFault) ==
    LET changes == [i \in DOMAIN order |-> w.GatedChanges[order[i]]]
        cs      == [id |-> id, changes |-> changes,
                    description |-> description,
                    hash |-> hashChangeSet(changes)]
    IN  IF changes = << >> /\ description = "status"
        THEN [w |-> w, cs |-> [NoChangeSet EXCEPT !.description = description],
              err |-> NoErr]
        ELSE IF changes = << >>
        THEN [w |-> w, cs |-> NoChangeSet, err |-> "NoChanges"]
        ELSE IF dbFault THEN [w |-> w, cs |-> NoChangeSet, err |-> "IO"]
        ELSE [w |-> [storeChangeSet(w, cs) EXCEPT !.GatedChanges = EmptyMap],
              cs |-> cs, err |-> NoErr]

CreateChangeSetOp(w, description, order, id, dbFault) ==
    LET changes == [i \in DOMAIN order |-> w.GatedChanges[order[i]]]
        cs      == [id |-> id, changes |-> changes,
                    description |-> description,
                    hash |-> hashChangeSet(changes)]
    IN  IF changes = << >> /\ description = "status"
        THEN [w |-> w, cs |-> [NoChangeSet EXCEPT !.description = description],
              err |-> NoErr]
        ELSE IF changes = << >>
        THEN [w |-> w, cs |-> NoChangeSet, err |-> "NoChanges"]
        ELSE IF dbFault THEN [w |-> w, cs |-> NoChangeSet, err |-> "IO"]
        ELSE [w |-> storeChangeSet(w, cs), cs |-> cs, err |-> NoErr]

\* LocalTracker.Status: the changes of CreateChangeSet("status").
TrackerStatus(w, order, id, dbFault) ==
    LET r == CreateChangeSetOp(w, "status", order, id, dbFault)
    IN  [w |-> r.w, changes |-> r.cs.changes, err |-> r.err]

----------------------------------------------------------------------------
(* The staging life cycle: gating, ungating, cleanup, tracking, recorded    *)
(* file states and changesets, over one instance and its working tree.     *)

UngateLists  == {<<FileA>>, <<FileA, FileB>>}
Descriptions == {"status", "first change"}
Trackers     == {"LocalTracker", "AutoTracker"}

\* Gate of one path, nothing failing.
StageGate(path) ==
    /\ impl \in Impls
    /\ LET r == GateCall(WsState, path)
       IN  WithinRefs(r.w) /\ SetWs(r.w)
    /\ UNCHANGED <<hist, concVars, events, impl, diffRun, objects>>

Ungate(paths, dbFault) ==
    /\ impl = "LocalWorkspace"
    /\ SetWs(UngateOp(WsState, paths, dbFault).w)
    /\ UNCHANGED <<hist, concVars, events, impl, diffRun, objects>>

CleanupGatedChanges ==
    /\ impl = "LocalWorkspace"
    /\ SetWs(CleanupOp(WsState))
    /\ UNCHANGED <<hist, concVars, events, impl, diffRun, objects>>

\* LocalTracker.Track; AutoTracker.Track does nothing and returns nil.
Track(paths) ==
    /\ impl \in Trackers
    /\ SetWs(IF impl = "LocalTracker" THEN TrackerTrack(WsState, paths).w
             ELSE WsState)
    /\ UNCHANGED <<hist, concVars, events, impl, diffRun, objects>>

Untrack(paths, dbFault) ==
    /\ impl \in Trackers
    /\ SetWs(IF impl = "LocalTracker"
             THEN TrackerUntrack(WsState, paths, dbFault).w
             ELSE AutoUntrack(WsState, paths, dbFault).w)
    /\ UNCHANGED <<hist, concVars, events, impl, diffRun, objects>>

\* The state of a gated Change is recorded, as LocalTracker.updateFileState
\* does for the changes of a changeset that is committed: json.Marshal of
\* the state of the Change is set under file_state:<path>.
RecordFileState(path) ==
    /\ impl \in Impls
    /\ path \in DOMAIN GatedChanges
    /\ GatedChanges[path].type # "delete"
    /\ LET change == GatedChanges[path]
       IN  SetWs([WsState EXCEPT !.db = Put(@, fileStateKey(change.path),
                                            << <<"hash", change.new_hash>>,
                                               <<"size", change.size>> >>)])
    /\ UNCHANGED <<hist, concVars, events, impl, diffRun, objects>>

CreateChangeSet(description, order, id, dbFault) ==
    /\ impl \in Trackers
    /\ <<"changeset:", id>> \notin DOMAIN db
    /\ SetWs(CreateChangeSetOp(WsState, description, order, id, dbFault).w)
    /\ UNCHANGED <<hist, concVars, events, impl, diffRun, objects>>

\* Another holder of the content store releases a reference: Safe.Delete.
ReleaseBlob(hash) ==
    /\ impl \in Impls
    /\ SetWs([WsState EXCEPT !.st = DeleteOp(SafeState, hash).st])
    /\ UNCHANGED <<hist, concVars, events, impl, diffRun, objects>>

\* A LocalWorkspace: gating, ungating, cleanup, recorded states, the blobs
\* of the shared content store and the working tree.
InitStage == InitWs /\ impl = "LocalWorkspace"

SpecStage ==
    InitStage /\ [][\/ \E a \in GatedFiles \cup {RootDir} : StageGate(a)
                    \/ \E l \in UngateLists, df \in BOOLEAN : Ungate(l, df)
                    \/ CleanupGatedChanges
                    \/ \E p \in GatedFiles : RecordFileState(p)
                    \/ \E h \in GoodHashes : ReleaseBlob(h)
                    \/ \E p \in UserFiles, c \in Contents : WriteFile(p, c)
                    \/ \E p \in UserFiles : RemoveFile(p)
                    \/ Reopen]_vars

\* One instance of any of the three implementations: files are gated, ungated,
\* tracked, untracked, recorded, written and removed.
SpecStatus ==
    InitWs /\ [][\/ \E a \in GatedFiles : StageGate(a)
                 \/ \E p \in UserFiles : Ungate(<<p>>, FALSE)
                 \/ \E l \in {<<FileA>>, <<RootDir>>} : Track(l)
                 \/ \E l \in UngateLists, df \in BOOLEAN : Untrack(l, df)
                 \/ \E p \in UserFiles : RecordFileState(p)
                 \/ \E p \in UserFiles, c \in Contents : WriteFile(p, c)
                 \/ \E p \in UserFiles : RemoveFile(p)
                 \/ HandleFSEvent]_vars

\* An instance whose files are gated and, by a tracker, made into changesets.
NextChange ==
    \/ \E a \in GatedFiles : StageGate(a)
    \/ \E d \in Descriptions, o \in Orders(DOMAIN GatedChanges),
          id \in 1..MaxChangeSets, df \in BOOLEAN : CreateChangeSet(d, o, id, df)
    \/ \E p \in GatedFiles : RecordFileState(p)
    \/ \E p \in UserFiles, c \in Contents : WriteFile(p, c)
    \/ \E p \in UserFiles : RemoveFile(p)
    \/ HandleFSEvent

SpecChange == InitWs /\ [][NextChange]_vars

----------------------------------------------------------------------------
(* Properties of Ungate and CleanupGatedChanges *)

\* C11: after Gate([p]) followed by a successful Ungate([p]), p is absent
\* from the in-memory gated map, Status does not report p as gated, and no
\* durable gated record of p remains: loading the gated changes from the
\* database does not bring p back.
C11_UngateDurable ==
    \A p \in GatedFiles :
        LET g == WorkspaceGate(WsState, <<p>>, {}, FALSE)
            u == UngateOp(g.w, <<p>>, FALSE)
            status == WorkspaceStatus(u.w)
        IN  (p \in DOMAIN files /\ g.err = NoErr /\ u.err = NoErr) =>
                /\ p \notin DOMAIN u.w.GatedChanges
                /\ ~\E i \in DOMAIN status :
                        status[i].path = p /\ status[i].gated
                /\ gatedKey(p) \notin DOMAIN u.w.db
                /\ p \notin DOMAIN LoadGatedChangesOp(u.w).GatedChanges

\* C12: Ungate(paths), successful or not, leaves unchanged every FileState
\* record, every file of the working tree, the blob and ref_count of every
\* hash of the content store, and the gated entries of the paths it was not
\* given.
C12_UngateFrame ==
    \A l \in UngateLists \cup {<< >>, <<FileB>>}, df \in BOOLEAN :
        LET u == UngateOp(WsState, l, df).w
            FileStates(w) ==
                [k \in {k \in DOMAIN w.db : k[1] = "file_state:"} |-> w.db[k]]
        IN  /\ FileStates(u) = FileStates(WsState)
            /\ u.files = files
            /\ u.st.disk = disk
            /\ u.st.meta = meta
            /\ \A q \in DOMAIN GatedChanges \ Range(l) :
                    /\ q \in DOMAIN u.GatedChanges
                    /\ u.GatedChanges[q] = GatedChanges[q]

\* Two files are gated, one has a FileState, their blobs are stored, and
\* Ungate of one of them removes exactly that entry.
C12_Witness ==
    /\ impl = "LocalWorkspace"
    /\ DOMAIN GatedChanges = {FileA, FileB}
    /\ getFileState(WsState, FileA).ok
    /\ \A p \in {FileA, FileB} :
            /\ GatedChanges[p].new_hash \in DOMAIN meta
            /\ meta[GatedChanges[p].new_hash].ref_count > 0
    /\ DOMAIN UngateOp(WsState, <<FileA>>, FALSE).w.GatedChanges = {FileB}

\* C13: CleanupGatedChanges discards a gated entry exactly when its file is
\* missing from the working tree and the blob of its hash is missing from the
\* content store; an entry whose file is gone but whose blob is held is kept,
\* as is every entry whose file exists.
C13_CleanupBothGone ==
    \A p \in DOMAIN GatedChanges :
        LET after == CleanupOp(WsState).GatedChanges
            hash  == IF GatedChanges[p].new_hash # NoHash
                     THEN GatedChanges[p].new_hash
                     ELSE GatedChanges[p].old_hash
            gone  == /\ ~pathExists(files, cleanPath(p))
                     /\ contentPath(hash) \notin DOMAIN disk
        IN  /\ p \notin DOMAIN after <=> gone
            /\ p \in DOMAIN after => after[p] = GatedChanges[p]

----------------------------------------------------------------------------
(* Properties of Status *)

\* C14: whatever the gated map, the FileState records, the tracked set and
\* the working tree, the list returned by Status names each path at most
\* once: never both as gated and as modify, untracked or delete, and never
\* both as present and as deleted.
C14_StatusNoDuplicates ==
    LET NoDuplicatePath(status) ==
            \A i, j \in DOMAIN status :
                status[i].path = status[j].path => i = j
    IN  /\ NoDuplicatePath(WorkspaceStatus(WsState))
        /\ NoDuplicatePath(AutoStatus(WsState))
        /\ \A o \in Orders(DOMAIN GatedChanges) :
                NoDuplicatePath(TrackerStatus(WsState, o, 1, FALSE).changes)

\* Status of a LocalWorkspace meets a gated file in its walk and a recorded
\* path whose file is gone.
C14_Witness ==
    LET status == WorkspaceStatus(WsState)
    IN  /\ impl = "LocalWorkspace"
        /\ \E i \in DOMAIN status :
                status[i].gated /\ status[i].path \in DOMAIN files
        /\ \E i \in DOMAIN status : status[i].type = "delete"
        /\ Len(AutoStatus(WsState)) >= 1

\* C15: Status of a LocalWorkspace or an AutoTracker classifies every existing
\* file that is neither gated nor ignored by comparing the hash of its content
\* with its last FileState: untracked when there is no FileState, modify when
\* the FileState's hash differs from the current hash, and not modify when
\* the two are equal.
C15_StatusClassifies ==
    impl \in {"LocalWorkspace", "AutoTracker"} =>
        \A p \in GatedFiles :
            (p \in DOMAIN files /\ p \notin DOMAIN GatedChanges) =>
                LET prev   == getFileState(WsState, p)
                    cur    == HashContent(files[p])
                    status == IF impl = "LocalWorkspace"
                              THEN WorkspaceStatus(WsState)
                              ELSE AutoStatus(WsState)
                    types  == {status[i].type :
                                i \in {i \in DOMAIN status : status[i].path = p}}
                IN  /\ ~prev.ok => types = {"untracked"}
                    /\ (prev.ok /\ prev.state.hash # cur) => types = {"modify"}
                    /\ (prev.ok /\ prev.state.hash = cur) => "modify" \notin types

----------------------------------------------------------------------------
(* Properties of Gate, Untrack and ShowFileDiff over recorded states *)

\* C16: after a successful Gate of an existing file p, the database holds a
\* FileState record of p whose hash is the new_hash of the gated Change.
C16_GateRecordsFileState ==
    \A p \in GatedFiles :
        LET g == GateCall(WsState, p)
        IN  (p \in DOMAIN files /\ g.err = NoErr) =>
                /\ getFileState(g.w, p).ok
                /\ getFileState(g.w, p).state.hash = g.w.GatedChanges[p].new_hash

C18_UntrackForgets ==
    impl \in Trackers =>
        \A l \in UngateLists, df \in BOOLEAN :
            LET u == IF impl = "AutoTracker" THEN AutoUntrack(WsState, l, df)
                     ELSE TrackerUntrack(WsState, l, df)
            IN  u.err = NoErr =>
                    \A i \in DOMAIN l :
                        /\ l[i] \notin u.w.Tracked
                        /\ ~getFileState(u.w, l[i]).ok
                        /\ l[i] \notin DOMAIN u.w.GatedChanges

\* C19: ShowFileDiff(path) of every implementation is Diff(old, current),
\* current being the bytes of the file and old the blob named by the last
\* FileState of the path, empty when there is no FileState or no blob; so a
\* file that differs from its last recorded state is diffed against that
\* state and not against itself.
C19_ShowFileDiffOperands ==
    \A p \in GatedFiles :
        p \in DOMAIN files =>
            LET r == CASE impl = "LocalWorkspace" ->
                            WorkspaceShowFileDiff(WsState, p)
                       [] impl = "LocalTracker" ->
                            TrackerShowFileDiff(WsState, p)
                       [] impl = "AutoTracker" ->
                            AutoShowFileDiff(WsState, p)
                prev == getFileState(WsState, p)
                blob == contentPath(prev.state.hash)
            IN  /\ r.err = NoErr
                /\ r.new = files[p]
                /\ r.old = IF prev.ok /\ blob \in DOMAIN disk
                           THEN disk[blob] ELSE << >>

----------------------------------------------------------------------------
(* Properties of CreateChangeSet *)

\* C20: CreateChangeSet(description) with an empty gated map fails with the
\* no-changes error and writes nothing to the database, unless description is
\* "status", when it returns an empty changeset and also writes nothing; with
\* a gated map that is not empty it returns a changeset whose members are
\* exactly the gated Changes.
C20_CreateChangeSet ==
    \A d \in Descriptions, o \in Orders(DOMAIN GatedChanges), id \in 1..MaxChangeSets :
        LET r == CreateChangeSetOp(WsState, d, o, id, FALSE)
            Members(cs) == {cs.changes[i] : i \in DOMAIN cs.changes}
        IN  /\ (GatedChanges = EmptyMap /\ d # "status") =>
                    r.err = "NoChanges" /\ r.w.db = db
            /\ (GatedChanges = EmptyMap /\ d = "status") =>
                    r.err = NoErr /\ r.cs.changes = << >> /\ r.w.db = db
            /\ GatedChanges # EmptyMap =>
                    /\ r.err = NoErr
                    /\ Members(r.cs) = {GatedChanges[p] : p \in DOMAIN GatedChanges}
                    /\ Len(r.cs.changes) = Cardinality(DOMAIN GatedChanges)

\* Two files are gated and the changeset created from them is stored.
C20_Witness ==
    /\ impl \in Trackers
    /\ Cardinality(DOMAIN GatedChanges) = 2
    /\ <<"changeset:", 1>> \in DOMAIN db
    /\ {db[<<"changeset:", 1>>].changes[i] :
            i \in DOMAIN db[<<"changeset:", 1>>].changes} =
                {GatedChanges[p] : p \in DOMAIN GatedChanges}

\* C21: the hash of a changeset depends only on the gated map: the
\* CreateChangeSet calls of one state return the same hash whatever order the
\* range over the map yields its entries in.
C21_HashOrderFree ==
    \A o1, o2 \in Orders(DOMAIN GatedChanges) :
        CreateChangeSetOp(WsState, "first change", o1, 1, FALSE).cs.hash
            = CreateChangeSetOp(WsState, "first change", o2, 1, FALSE).cs.hash

----------------------------------------------------------------------------
(* Locking.  Each operation of an instance takes a lock (or none) when it   *)
(* starts, reads and writes the gated map and the tracked set, and releases *)
(* the lock when it returns (defer Unlock).  pc[p] is the operation caller  *)
(* p is inside, "idle" when in none, "fatal" once the Go runtime has        *)
(* stopped the process on a concurrent map access.  LocalTracker has the    *)
(* field Mu; AutoTracker embeds a LocalTracker and has a field mu of its    *)
(* own.                                                                     *)

\* For each implementation, the lock each operation takes and how, and its
\* accesses to the two maps.
LockPlan ==
    LET op(lock, mode, gated, tracked) ==
            [lock |-> lock, mode |-> mode, GatedChanges |-> gated,
             Tracked |-> tracked]
    IN  [LocalWorkspace |->
            [Gate                |-> op("Mu", "Lock", "w", "-"),
             Ungate              |-> op("Mu", "Lock", "w", "-"),
             CleanupGatedChanges |-> op("Mu", "Lock", "w", "-"),
             Status              |-> op("Mu", "RLock", "r", "-"),
             GetGatedChange      |-> op("Mu", "RLock", "r", "-"),
             LoadGatedChanges    |-> op("-", "-", "w", "-")],
         LocalTracker |->
            [Gate            |-> op("Mu", "Lock", "w", "-"),
             CreateChangeSet |-> op("Mu", "Lock", "r", "-"),
             Status          |-> op("Mu", "Lock", "r", "-")],
         AutoTracker |->
            [Gate            |-> op("mu", "Lock", "w", "w"),
             handleFSEvent   |-> op("mu", "Lock", "-", "w"),
             Status          |-> op("mu", "RLock", "r", "r"),
             GetGatedChange  |-> op("Mu", "RLock", "r", "-"),
             CreateChangeSet |-> op("Mu", "Lock", "r", "-")]]

\* Caller p starts operation o: sync.RWMutex lets Lock in when nobody holds
\* the lock, RLock when nobody holds it for writing.
LockEnter(p, o) ==
    /\ impl \in Impls
    /\ pc[p] = "idle"
    /\ o \in DOMAIN LockPlan[impl]
    /\ LET mine == LockPlan[impl][o]
       IN  \A q \in Procs \ {p} :
                (pc[q] \notin {"idle", "fatal"} /\ mine.lock # "-"
                    /\ LockPlan[impl][pc[q]].lock = mine.lock)
                => (mine.mode = "RLock" /\ LockPlan[impl][pc[q]].mode = "RLock")
    /\ pc' = [pc EXCEPT ![p] = o]
    /\ UNCHANGED <<safeVars, hist, loc, wsVars>>

\* Caller p's operation does its work on the maps and returns.  When another
\* caller is inside an operation that accesses a map this one writes, or
\* writes a map this one accesses, the Go runtime may instead stop the
\* process ("fatal error: concurrent map writes").
LockExit(p, fatal) ==
    /\ impl \in Impls
    /\ pc[p] \notin {"idle", "fatal"}
    /\ LET mine == LockPlan[impl][pc[p]]
           w == CASE pc[p] = "Gate" -> GateCall(WsState, FileA).w
                  [] pc[p] = "Ungate" -> UngateOp(WsState, <<FileA>>, FALSE).w
                  [] pc[p] = "CleanupGatedChanges" -> CleanupOp(WsState)
                  [] pc[p] = "LoadGatedChanges" -> LoadGatedChangesOp(WsState)
                  [] pc[p] = "handleFSEvent" ->
                        handleFSEvent(WsState, [op |-> "Create", name |-> FileA])
                  [] OTHER -> WsState
           raced == \E q \in Procs \ {p} :
                        /\ pc[q] \notin {"idle", "fatal"}
                        /\ \E m \in {"GatedChanges", "Tracked"} :
                            LET a == mine[m]
                                b == LockPlan[impl][pc[q]][m]
                            IN  a # "-" /\ b # "-" /\ "w" \in {a, b}
       IN  IF fatal
           THEN raced /\ pc' = [q \in Procs |-> "fatal"]
                      /\ UNCHANGED <<safeVars, files, GatedChanges, Tracked, db>>
           ELSE WithinRefs(w) /\ SetWs(w) /\ pc' = [pc EXCEPT ![p] = "idle"]
    /\ UNCHANGED <<hist, loc, events, impl, diffRun, objects>>

InitLock ==
    /\ InitSafe
    /\ pc = [p \in Procs |-> "idle"]
    /\ loc = << >>
    /\ impl \in Impls
    /\ files \in {BaseTree} \cup {Put(BaseTree, FileA, c) : c \in Contents}
    /\ GatedChanges = EmptyMap
    /\ Tracked = IF impl = "AutoTracker" THEN initializeTracking(files) ELSE {}
    /\ db = EmptyMap
    /\ events = << >>
    /\ diffRun = << >>
    /\ objects = NoObjects

SpecLock ==
    InitLock /\ [][\/ \E p \in Procs, o \in DOMAIN LockPlan.LocalWorkspace
                        \cup DOMAIN LockPlan.AutoTracker : LockEnter(p, o)
                   \/ \E p \in Procs, fatal \in BOOLEAN : LockExit(p, fatal)]_vars

\* C22: no caller writes the gated map or the tracked set while another
\* caller is inside an operation that reads or writes the same map: all
\* operations on the maps of one instance are serialised by one
\* reader/writer lock.
C22_MapsGuarded ==
    impl \in Impls =>
        \A p, q \in Procs :
            (p # q /\ pc[p] \notin {"idle", "fatal"} /\ pc[q] \notin {"idle", "fatal"})
                => \A m \in {"GatedChanges", "Tracked"} :
                    LET a == LockPlan[impl][pc[p]][m]
                        b == LockPlan[impl][pc[q]][m]
                    IN  ~(a # "-" /\ b # "-" /\ "w" \in {a, b})

----------------------------------------------------------------------------
(* Properties of the ignore rules and of the persisted gated records *)

\* C23: no path with a hidden component (a name beginning with '.') or a
\* component of the ignore list is in the tracked set or in the gated map;
\* no create or write event on a hidden file puts it in the tracked set and
\* no Gate of a hidden file puts it in the gated map.
C23_NoIgnoredPath ==
    LET Hidden(path) ==
            \E i \in DOMAIN path :
                \/ path[i] \in {".tig", ".git", ".env"}
                \/ path[i] \in IgnoredNames
    IN  /\ \A p \in Tracked \cup DOMAIN GatedChanges : ~Hidden(p)
        /\ impl = "AutoTracker" =>
            \A o \in {"Create", "Write"} :
                \A p \in handleFSEvent(WsState, [op |-> o, name |-> <<".env">>]).Tracked :
                    ~Hidden(p)
        /\ impl = "AutoTracker" =>
            \A p \in DOMAIN AutoGate([WsState EXCEPT !.files = Put(@, <<".env">>, <<1>>)],
                                     <<".env">>, {}).w.GatedChanges :
                ~Hidden(p)

----------------------------------------------------------------------------
(* The diff engine (internal/diff/diff.go).  A content is a sequence of     *)
(* characters, "\n" among them; a line is the sequence of its characters.   *)
(* A Line is [type, content], a Hunk [old_start, old_lines, new_start,      *)
(* new_lines, lines].  diffRun holds one Diff call: the lines of its        *)
(* operands, the engine's contextLines, the loop variables i, j, hunks and  *)
(* currentHunk of extractHunks, and the DiffResult once it has returned.    *)

\* bytes.Split(bytes.TrimSuffix(content, "\n"), "\n"): one trailing newline
\* is dropped, then the content is cut at every newline.
splitLines(content) ==
    LET t == IF content # << >> /\ content[Len(content)] = "\n"
             THEN SubSeq(content, 1, Len(content) - 1) ELSE content
        seps == {k \in 1..Len(t) : t[k] = "\n"}
        sep(n) == IF n = 0 THEN 0
                  ELSE IF n > Cardinality(seps) THEN Len(t) + 1
                  ELSE CHOOSE k \in seps :
                            Cardinality({m \in seps : m <= k}) = n
    IN  [n \in 1..(Cardinality(seps) + 1) |->
            SubSeq(t, sep(n - 1) + 1, sep(n) - 1)]

\* Engine.computeLCS: matrix[i][j] is the length of a longest common
\* subsequence of the first i old lines and the first j new lines.
computeLCS(oldLines, newLines) ==
    LET matrix[i \in 0..Len(oldLines), j \in 0..Len(newLines)] ==
            IF i = 0 \/ j = 0 THEN 0
            ELSE IF oldLines[i] = newLines[j] THEN matrix[i - 1, j - 1] + 1
            ELSE IF matrix[i - 1, j] >= matrix[i, j - 1] THEN matrix[i - 1, j]
            ELSE matrix[i, j - 1]
    IN  matrix

\* One iteration of the loop of Engine.extractHunks on the loop state d:
\* the branch taken at cell (i, j), then the closing of currentHunk
\* (cur; << >> is nil).
extractStep_NoLastDeletions(d) ==
    LET lcs == computeLCS(d.old, d.new)
        i == d.i
        j == d.j
        fresh == IF d.cur = << >>
                 THEN [old_start |-> i, old_lines |-> 0, new_start |-> j,
                       new_lines |-> 0, lines |-> << >>]
                 ELSE d.cur
        equal == IF i > 0 /\ j > 0 THEN d.old[i] = d.new[j] ELSE FALSE
        addition == j > 0 /\ (IF i = 0 THEN TRUE ELSE lcs[i, j - 1] >= lcs[i - 1, j])
        deletion == i > 0 /\ (IF j = 0 THEN FALSE ELSE lcs[i, j - 1] < lcs[i - 1, j])
        after ==
            IF equal
            THEN [d EXCEPT !.i = i - 1, !.j = j - 1,
                    !.cur = IF d.cur = << >> THEN << >>
                            ELSE [d.cur EXCEPT !.lines =
                                    <<[type |-> "Context", content |-> d.old[i]]>> \o @]]
            ELSE IF addition
            THEN [d EXCEPT !.j = j - 1,
                    !.cur = [fresh EXCEPT !.new_lines = @ + 1, !.lines =
                                <<[type |-> "Addition", content |-> d.new[j]]>> \o @]]
            ELSE IF deletion
            THEN [d EXCEPT !.i = i - 1,
                    !.cur = [fresh EXCEPT !.old_lines = @ + 1, !.lines =
                                <<[type |-> "Deletion", content |-> d.old[i]]>> \o @]]
            ELSE d
    IN  IF after.cur # << >> /\ after.cur.lines # << >>
        THEN [after EXCEPT !.hunks = <<after.cur>> \o @, !.cur = << >>]
        ELSE after
extractStep_PreferDeletion(d) ==
    LET lcs == computeLCS(d.old, d.new)
        i == d.i
        j == d.j
        fresh == IF d.cur = << >>
                 THEN [old_start |-> i, old_lines |-> 0, new_start |-> j,
                       new_lines |-> 0, lines |-> << >>]
                 ELSE d.cur
        equal == IF i > 0 /\ j > 0 THEN d.old[i] = d.new[j] ELSE FALSE
        addition == j > 0 /\ (IF i = 0 THEN TRUE ELSE lcs[i, j - 1] > lcs[i - 1, j])
        deletion == i > 0 /\ (IF j = 0 THEN TRUE ELSE lcs[i, j - 1] <= lcs[i - 1, j])
        after ==
            IF equal
            THEN [d EXCEPT !.i = i - 1, !.j = j - 1,
                    !.cur = IF d.cur = << >> THEN << >>
                            ELSE [d.cur EXCEPT !.lines =
                                    <<[type |-> "Context", content |-> d.old[i]]>> \o @]]
            ELSE IF addition
            THEN [d EXCEPT !.j = j - 1,
                    !.cur = [fresh EXCEPT !.new_lines = @ + 1, !.lines =
                                <<[type |-> "Addition", content |-> d.new[j]]>> \o @]]
            ELSE IF deletion
            THEN [d EXCEPT !.i = i - 1,
                    !.cur = [fresh EXCEPT !.old_lines = @ + 1, !.lines =
                                <<[type |-> "Deletion", content |-> d.old[i]]>> \o @]]
            ELSE d
    IN  IF after.cur # << >> /\ after.cur.lines # << >>
        THEN [after EXCEPT !.hunks = <<after.cur>> \o @, !.cur = << >>]
        ELSE after
extractStep(d) ==
    LET lcs == computeLCS(d.old, d.new)
        i == d.i
        j == d.j
        fresh == IF d.cur = << >>
                 THEN [old_start |-> i, old_lines |-> 0, new_start |-> j,
                       new_lines |-> 0, lines |-> << >>]
                 ELSE d.cur
        equal == IF i > 0 /\ j > 0 THEN d.old[i] = d.new[j] ELSE FALSE
        addition == j > 0 /\ (IF i = 0 THEN TRUE ELSE lcs[i, j - 1] >= lcs[i - 1, j])
        deletion == i > 0 /\ (IF j = 0 THEN TRUE ELSE lcs[i, j - 1] < lcs[i - 1, j])
        after ==
            IF equal
            THEN [d EXCEPT !.i = i - 1, !.j = j - 1,
                    !.cur = IF d.cur = << >> THEN << >>
                            ELSE [d.cur EXCEPT !.lines =
                                    <<[type |-> "Context", content |-> d.old[i]]>> \o @]]
            ELSE IF addition
            THEN [d EXCEPT !.j = j - 1,
                    !.cur = [fresh EXCEPT !.new_lines = @ + 1, !.lines =
                                <<[type |-> "Addition", content |-> d.new[j]]>> \o @]]
            ELSE IF deletion
            THEN [d EXCEPT !.i = i - 1,
                    !.cur = [fresh EXCEPT !.old_lines = @ + 1, !.lines =
                                <<[type |-> "Deletion", content |-> d.old[i]]>> \o @]]
            ELSE d
    IN  IF after.cur # << >> /\ after.cur.lines # << >>
        THEN [after EXCEPT !.hunks = <<after.cur>> \o @, !.cur = << >>]
        ELSE after

\* Engine.addContextLines: for each hunk, the old lines at the indices
\* max(0, OldStart - contextLines) .. OldStart - 1 of the zero-based slice,
\* each put in front of the hunk's lines, and, for every hunk but the last,
\* the old lines at OldStart + OldLines .. contextEnd - 1 appended.
addContextLines(hunks, oldLines, contextLines) ==
    LET context(j) == [type |-> "Context", content |-> oldLines[j + 1]]
        min(a, b) == IF a <= b THEN a ELSE b
        with(k) ==
            LET hunk == hunks[k]
                contextStart == IF hunk.old_start - contextLines >= 0
                                THEN hunk.old_start - contextLines ELSE 0
                before == [t \in 1..(hunk.old_start - contextStart) |->
                                context(hunk.old_start - t)]
                from == hunk.old_start + hunk.old_lines
                contextEnd == min(Len(oldLines), from + contextLines)
                following == IF k < Len(hunks) /\ from < contextEnd
                             THEN [t \in 1..(contextEnd - from) |->
                                        context(from + t - 1)]
                             ELSE << >>
            IN  [hunk EXCEPT !.lines = before \o @ \o following]
    IN  IF contextLines = 0 THEN hunks ELSE [k \in DOMAIN hunks |-> with(k)]

\* Engine.Diff up to the loop of extractHunks: the operands are split into
\* lines and the walk starts at cell (len(oldLines), len(newLines)).
Diff_OldUntrimmed(oldContent, newContent, contextLines) ==
    [oldContent |-> oldContent, newContent |-> newContent,
     old |-> splitLines(oldContent \o <<"\n">>), new |-> splitLines(newContent),
     context |-> contextLines,
     i |-> Len(splitLines(oldContent \o <<"\n">>)), j |-> Len(splitLines(newContent)),
     hunks |-> << >>, cur |-> << >>, result |-> << >>]
Diff(oldContent, newContent, contextLines) ==
    [oldContent |-> oldContent, newContent |-> newContent,
     old |-> splitLines(oldContent), new |-> splitLines(newContent),
     context |-> contextLines,
     i |-> Len(splitLines(oldContent)), j |-> Len(splitLines(newContent)),
     hunks |-> << >>, cur |-> << >>, result |-> << >>]

\* One iteration of the loop of extractHunks.
ExtractHunks ==
    /\ diffRun # << >>
    /\ diffRun.result = << >>
    /\ diffRun.i > 0 \/ diffRun.j > 0
    /\ diffRun' = extractStep(diffRun)
    /\ UNCHANGED <<safeVars, hist, concVars, files, GatedChanges, Tracked, db,
                   events, impl, objects>>

\* The loop has ended: Diff adds the context lines, counts the additions
\* and deletions of the hunks and returns the DiffResult.
DiffReturn ==
    /\ diffRun # << >>
    /\ diffRun.result = << >>
    /\ diffRun.i = 0 /\ diffRun.j = 0
    /\ LET hunks == addContextLines(diffRun.hunks, diffRun.old, diffRun.context)
           count(type) ==
                Cardinality(UNION {{<<k, n>> : n \in {m \in DOMAIN hunks[k].lines :
                                                        hunks[k].lines[m].type = type}} :
                                   k \in DOMAIN hunks})
       IN  diffRun' = [diffRun EXCEPT !.result =
                [hunks |-> hunks,
                 stats |-> [additions |-> count("Addition"),
                            deletions |-> count("Deletion"),
                            changes   |-> count("Addition") + count("Deletion")]]]
    /\ UNCHANGED <<safeVars, hist, concVars, files, GatedChanges, Tracked, db,
                   events, impl, objects>>

\* An engine of some contextLines is given two contents.
InitDiff ==
    /\ InitSafe
    /\ IdleConc
    /\ files = EmptyMap
    /\ GatedChanges = EmptyMap
    /\ Tracked = {}
    /\ db = EmptyMap
    /\ events = << >>
    /\ impl = "none"
    /\ objects = NoObjects
    /\ LET joined(ls) == [k \in 1..(2 * Len(ls) - 1) |->
                                IF k % 2 = 1 THEN ls[(k + 1) \div 2] ELSE "\n"]
           \* the contents of at most MaxLines one-character lines over the
           \* letters, with and without a newline after the last line
           DiffContents(letters) ==
                {joined(ls) \o t :
                    ls \in UNION {[1..n -> letters] : n \in 0..MaxLines},
                    t \in {<< >>, <<"\n">>}}
       IN  \E n \in 0..MaxContext :
            \E pair \in (DiffContents({"a", "b"}) \X DiffContents({"a", "x"}))
                    \cup {<< <<"a", "\n", "b", "\n", "c">>,
                              <<"a", "\n", "x", "\n", "c">> >>} :
                diffRun = Diff(pair[1], pair[2], n)

SpecDiff == InitDiff /\ [][ExtractHunks \/ DiffReturn]_vars

----------------------------------------------------------------------------
(* Properties of the diff engine *)

\* C25: Diff of a content with itself, whatever the context size, has no
\* hunks and Stats additions 0, deletions 0, changes 0.
C25_DiffSelf ==
    (/\ diffRun # << >>
     /\ diffRun.result # << >>
     /\ diffRun.oldContent = diffRun.newContent)
        => /\ diffRun.result.hunks = << >>
           /\ diffRun.result.stats = [additions |-> 0, deletions |-> 0, changes |-> 0]

\* Diff of a three-line content ending in a newline with itself, with
\* context lines asked for, has returned.
C25_Witness ==
    /\ diffRun # << >>
    /\ diffRun.result # << >>
    /\ diffRun.oldContent = diffRun.newContent
    /\ diffRun.oldContent = <<"a", "\n", "a", "\n", "a", "\n">>
    /\ diffRun.context = MaxContext

\* C26: a maximal run of contiguous changed lines is one hunk: operands
\* with no line in common give a single hunk, and old = a,b,c, new = a,x,c
\* with context 1 gives exactly one hunk, old_start = new_start = 2, lines
\* Context a, Deletion b, Addition x, Context c, and Stats 1, 1, 2.
C26_OneHunkPerRun ==
    (diffRun # << >> /\ diffRun.result # << >>) =>
        LET r == diffRun.result
            line(t, c) == [type |-> t, content |-> <<c>>]
        IN  /\ (\A i \in DOMAIN diffRun.old, j \in DOMAIN diffRun.new :
                    diffRun.old[i] # diffRun.new[j]) => Len(r.hunks) = 1
            /\ (/\ diffRun.oldContent = <<"a", "\n", "b", "\n", "c">>
                /\ diffRun.newContent = <<"a", "\n", "x", "\n", "c">>
                /\ diffRun.context = 1)
                => /\ Len(r.hunks) = 1
                   /\ r.hunks[1].old_start = 2
                   /\ r.hunks[1].new_start = 2
                   /\ r.hunks[1].lines = <<line("Context", "a"), line("Deletion", "b"),
                                           line("Addition", "x"), line("Context", "c")>>
                   /\ r.stats = [additions |-> 1, deletions |-> 1, changes |-> 2]

\* C27: with contextLines > 0, every Context line of a hunk is a line that
\* old and new have in common, and the last hunk too carries the context
\* that follows it: when the operands have as many lines, end with the same
\* line and differ in the line before it, the last hunk ends with that last
\* line as Context.
C27_ContextLines ==
    (diffRun # << >> /\ diffRun.result # << >> /\ diffRun.context > 0) =>
        LET hunks == diffRun.result.hunks
            old == diffRun.old
            new == diffRun.new
            n == Len(old)
            last == hunks[Len(hunks)].lines
        IN  /\ \A k \in DOMAIN hunks : \A m \in DOMAIN hunks[k].lines :
                    hunks[k].lines[m].type = "Context" =>
                        /\ hunks[k].lines[m].content \in Range(old)
                        /\ hunks[k].lines[m].content \in Range(new)
            /\ (/\ Len(new) = n /\ n >= 2
                /\ old[n] = new[n]
                /\ old[n - 1] # new[n - 1])
                => last[Len(last)] = [type |-> "Context", content |-> old[n]]

\* C28: in the backward walk of the LCS matrix, at a cell (i, j) with
\* i > 0, j > 0 and old[i-1] # new[j-1] the step emits an Addition of
\* new[j-1] and moves to (i, j-1) when lcs[i][j-1] >= lcs[i-1][j], and a
\* Deletion of old[i-1] moving to (i-1, j) otherwise; at a cell with equal
\* lines it moves to (i-1, j-1) and emits no change.
C28_WalkPreference ==
    [][(/\ diffRun # << >>
        /\ diffRun.result = << >>
        /\ diffRun.i > 0
        /\ diffRun.j > 0) =>
            LET d == diffRun
                e == diffRun'
                lcs == computeLCS(d.old, d.new)
                emitted(t, c) ==
                    /\ Len(e.hunks) = Len(d.hunks) + 1
                    /\ e.hunks[1].lines = <<[type |-> t, content |-> c]>>
            IN  IF d.old[d.i] = d.new[d.j]
                THEN e.i = d.i - 1 /\ e.j = d.j - 1 /\ e.hunks = d.hunks
                ELSE IF lcs[d.i, d.j - 1] >= lcs[d.i - 1, d.j]
                THEN e.i = d.i /\ e.j = d.j - 1 /\ emitted("Addition", d.new[d.j])
                ELSE e.i = d.i - 1 /\ e.j = d.j /\ emitted("Deletion", d.old[d.i])]_vars

\* A walk has passed a cell of different lines where the two neighbours of
\* the LCS matrix are equal and emitted an Addition there, and a cell where
\* it emitted a Deletion.
C28_Witness ==
    /\ diffRun # << >>
    /\ diffRun.old = << <<"a">>, <<"b">> >>
    /\ diffRun.new = << <<"a">>, <<"x">> >>
    /\ diffRun.i = 1 /\ diffRun.j = 1
    /\ Len(diffRun.hunks) = 2
    /\ diffRun.hunks[1].lines[1].type = "Deletion"
    /\ diffRun.hunks[2].lines[1].type = "Addition"

----------------------------------------------------------------------------
(* Verify and the cache *)

\* C29: Verify(h) reads the blob file of h and checks its hash: whenever
\* the file is missing or its content does not hash to h, Verify(h) returns
\* an error, also when h is in the cache.
C29_VerifyReadsDisk ==
    \A c \in Contents :
        LET h == hashContent(c)
            path == contentPath(h)
        IN  (IF path \in DOMAIN disk THEN hashContent(disk[path]) # h ELSE TRUE)
                => VerifyOp(SafeState, h).err # NoErr

\* C30: the cache is a pure optimisation: a Safe can be opened with every
\* cache capacity, zero included, and in every state reached through Store,
\* Get, Delete and StoreBatch calls alone each of Store, Get, Delete and
\* Exists returns the same result and leaves the same blob files and
\* metadata as on the same Safe with every cache entry evicted.
C30_CacheTransparent ==
    LET cold == [SafeState EXCEPT !.cache = << >>]
        same(a, b) == a.st.disk = b.st.disk /\ a.st.meta = b.st.meta /\ a.err = b.err
    IN  /\ \A size \in 0..CacheSize : NewOp(SafeState, size).err = NoErr
        /\ \A c \in Contents :
                /\ same(StoreOp(SafeState, c, "none"), StoreOp(cold, c, "none"))
                /\ StoreOp(SafeState, c, "none").hash = StoreOp(cold, c, "none").hash
        /\ \A h \in HashArgs :
                /\ same(GetOp(SafeState, h), GetOp(cold, h))
                /\ GetOp(SafeState, h).val = GetOp(cold, h).val
                /\ same(DeleteOp(SafeState, h), DeleteOp(cold, h))
                /\ Exists(SafeState, h, FALSE) = Exists(cold, h, FALSE)

----------------------------------------------------------------------------
(* Frame of CreateChangeSet; directory gates *)

\* C31: CreateChangeSet leaves the gated map, every FileState record and
\* every blob and ref_count as they were, and a second CreateChangeSet made
\* right after it returns a changeset with the same set of member changes.
C31_CreateChangeSetFrame ==
    impl \in Trackers =>
        \A d \in Descriptions, o1 \in Orders(DOMAIN GatedChanges), df \in BOOLEAN :
            LET first == CreateChangeSetOp(WsState, d, o1, 1, df)
                states(w) == [k \in {k \in DOMAIN w.db : k[1] = "file_state:"} |-> w.db[k]]
                Members(cs) == {cs.changes[i] : i \in DOMAIN cs.changes}
            IN  /\ first.w.GatedChanges = GatedChanges
                /\ states(first.w) = states(WsState)
                /\ first.w.st = SafeState
                /\ first.w.Tracked = Tracked
                /\ \A o2 \in Orders(DOMAIN first.w.GatedChanges) :
                        LET second == CreateChangeSetOp(first.w, d, o2, 2, df)
                        IN  /\ second.err = first.err
                            /\ Members(second.cs) = Members(first.cs)

\* A tracker with two gated files, the state of one of them recorded, has
\* stored a changeset of the two.
C31_Witness ==
    /\ impl \in Trackers
    /\ Cardinality(DOMAIN GatedChanges) = 2
    /\ \E k \in DOMAIN db : k[1] = "file_state:"
    /\ <<"changeset:", 1>> \in DOMAIN db
    /\ Len(db[<<"changeset:", 1>>].changes) = 2

\* C32: Gate of a directory goes through every descendant file that is not
\* ignored even when storing some of them fails: the call returns success,
\* every file that could be stored is in the gated map with the hash of its
\* content, and every failing file is left as it was.
C32_DirectoryGateContinues ==
    impl \in {"LocalWorkspace", "AutoTracker"} =>
        \A dir \in {RootDir, <<"src">>}, failing \in SUBSET GatedFiles :
            LET r == IF impl = "LocalWorkspace"
                     THEN WorkspaceGate(WsState, <<dir>>, failing, FALSE)
                     ELSE AutoGate(WsState, dir, failing)
                ignored(p) == IF impl = "LocalWorkspace" THEN shouldIgnore(p)
                              ELSE ShouldIgnore(p)
                after == r.w.GatedChanges
            IN  /\ r.err = NoErr
                /\ \A p \in Range(walkDir(files, cleanPath(dir))) :
                        ~ignored(p) =>
                            IF p \in failing
                            THEN IF p \in DOMAIN GatedChanges
                                 THEN p \in DOMAIN after /\ after[p] = GatedChanges[p]
                                 ELSE p \notin DOMAIN after
                            ELSE /\ p \in DOMAIN after
                                 /\ after[p].new_hash = HashContent(files[p])

----------------------------------------------------------------------------
(* The diff as an edit script *)

\* C33: the Diff result is a minimal edit script, for all contents and any
\* context size: Stats.Deletions is the number of old lines minus L and
\* Stats.Additions the number of new lines minus L, L being the length of
\* the longest common subsequence of the two line sequences (a content of
\* zero bytes has no line), and Stats.Changes is Additions + Deletions.
C33_MinimalEditScript ==
    (diffRun # << >> /\ diffRun.result # << >>) =>
        LET Lines(content) == IF content = << >> THEN << >> ELSE splitLines(content)
            old == Lines(diffRun.oldContent)
            new == Lines(diffRun.newContent)
            nth(I, k) == CHOOSE i \in I : Cardinality({j \in I : j < i}) = k - 1
            sub(s, I) == [k \in 1..Cardinality(I) |-> s[nth(I, k)]]
            common == {Cardinality(I) : I \in {I \in SUBSET DOMAIN old :
                            \E J \in SUBSET DOMAIN new : sub(old, I) = sub(new, J)}}
            L == CHOOSE n \in common : \A m \in common : m <= n
            stats == diffRun.result.stats
        IN  /\ stats.deletions = Len(old) - L
            /\ stats.additions = Len(new) - L
            /\ stats.changes = stats.additions + stats.deletions

\* C34: with an old content of zero bytes and a new content that is not
\* empty, Diff reports only additions: Stats.Deletions is 0 and
\* Stats.Additions is the number of lines of the new content.
C34_EmptyOldOnlyAdditions ==
    (/\ diffRun # << >>
     /\ diffRun.result # << >>
     /\ diffRun.oldContent = << >>
     /\ diffRun.newContent # << >>)
        => /\ diffRun.result.stats.deletions = 0
           /\ diffRun.result.stats.additions = Len(splitLines(diffRun.newContent))

\* C35: the backward walk of extractHunks terminates: at every cell with
\* i > 0 or j > 0 one of the three branches is taken and the iteration
\* lowers i + j (by one or two) without leaving 0..len(old), 0..len(new), so
\* the walk reaches (0, 0), where Diff returns, within len(old) + len(new)
\* iterations; the lines and the matrix are read inside their bounds, and
\* so are the old lines that addContextLines reads around each hunk.
C35_WalkTerminates ==
    diffRun # << >> =>
        LET d == diffRun
            i == d.i
            j == d.j
            lcs == computeLCS(d.old, d.new)
            e == extractStep(d)
            inOld(n) == n \in 1..Len(d.old)
            inLcs(a, b) == <<a, b>> \in DOMAIN lcs
            first == i > 0 /\ j > 0 /\ d.old[i] = d.new[j]
            second == j > 0 /\ (i = 0 \/ (inLcs(i, j - 1) /\ inLcs(i - 1, j)
                                          /\ lcs[i, j - 1] >= lcs[i - 1, j]))
            third == i > 0 /\ (j = 0 \/ (inLcs(i, j - 1) /\ inLcs(i - 1, j)
                                         /\ lcs[i, j - 1] < lcs[i - 1, j]))
        IN  /\ i \in 0..Len(d.old)
            /\ j \in 0..Len(d.new)
            /\ (d.result = << >> /\ (i > 0 \/ j > 0)) =>
                    /\ first \/ second \/ third
                    /\ e.i + e.j < i + j
                    /\ (i + j) - (e.i + e.j) \in 1..2
                    /\ e.i \in 0..i
                    /\ e.j \in 0..j
            /\ d.result # << >> => i = 0 /\ j = 0
            /\ \A k \in DOMAIN d.hunks :
                    /\ d.hunks[k].old_start \in 0..Len(d.old)
                    /\ \A n \in 0..(d.hunks[k].old_start - 1) : inOld(n + 1)

\* A walk over a,b,c and a,x,c that took the three branches has reached
\* (0, 0) and Diff has returned, with two context lines asked for.
C35_Witness ==
    /\ diffRun # << >>
    /\ diffRun.result # << >>
    /\ diffRun.old = << <<"a">>, <<"b">>, <<"c">> >>
    /\ diffRun.new = << <<"a">>, <<"x">>, <<"c">> >>
    /\ diffRun.context = MaxContext
    /\ diffRun.i = 0 /\ diffRun.j = 0
    /\ diffRun.result.stats = [additions |-> 1, deletions |-> 1, changes |-> 2]

----------------------------------------------------------------------------
(* Reference counts at the end of the uint32 range *)

\* A Safe on which one content has been stored 2^32 - 2 or 2^32 - 1 times
\* (ref_count 0xFFFFFFFE or 0xFFFFFFFF, the int32 patterns -2 and -1) and
\* that was then reopened.
InitRefs ==
    /\ IdleConc
    /\ IdleWs
    /\ cache = << >>
    /\ hist = [live |-> [c \in Contents |-> 0], run |-> [c \in Contents |-> 0],
               dels |-> [c \in Contents |-> 0], rets |-> [c \in Contents |-> {}],
               rolled |-> FALSE]
    /\ \E c \in Contents, rc \in {Uint32Dec(Uint32Dec(0)), Uint32Dec(0)} :
            /\ disk = Put(EmptyMap, contentPath(hashContent(c)), c)
            /\ meta = Put(EmptyMap, hashContent(c),
                          [hash |-> hashContent(c), size |-> Len(c),
                           ref_count |-> rc, compressed |-> FALSE])

\* Store, Get, Delete and reopening; the Deletes stop MaxRefs + 1 below the
\* end of the range.
NextRefs ==
    \/ \E c \in Contents, f \in Faults : Store(c, f)
    \/ \E h \in GoodHashes : Get(h)
    \/ \E h \in GoodHashes :
            /\ h \in DOMAIN meta => meta[h].ref_count # -(MaxRefs + 1)
            /\ Delete(h)
    \/ New

SpecRefs == InitRefs /\ [][NextRefs]_vars

\* C36: every persisted ContentMeta has ref_count >= 1 (as a uint32: its
\* bits are not all zero): metadata is removed rather than stored with
\* ref_count 0, so the decrement of Delete never meets a stored 0.
C36_RefCountPositive ==
    \A h \in DOMAIN meta : meta[h].ref_count # 0

----------------------------------------------------------------------------
(* The gated map of a LocalWorkspace *)

\* LoadGatedChanges called on a running instance.
LoadGatedChanges ==
    /\ impl = "LocalWorkspace"
    /\ SetWs(LoadGatedChangesOp(WsState))
    /\ UNCHANGED <<hist, concVars, events, impl, diffRun, objects>>

\* A LocalWorkspace whose content store is used by nothing else: gates (a
\* Store or the final save possibly failing), ungates, cleanups, loads,
\* reopenings and the user's edits.
SpecGated ==
    InitStage /\ [][\/ \E l \in {<<FileA>>, <<RootDir>>}, failing \in {{}, {FileA}},
                          sf \in BOOLEAN : GateWorkspace(l, failing, sf)
                    \/ \E l \in UngateLists, df \in BOOLEAN : Ungate(l, df)
                    \/ CleanupGatedChanges
                    \/ LoadGatedChanges
                    \/ \E p \in UserFiles, c \in Contents : WriteFile(p, c)
                    \/ \E p \in UserFiles : RemoveFile(p)
                    \/ Reopen]_vars

\* C37: in a LocalWorkspace every gated Change of type add or modify has
\* gated = true, lies in the map under its own path, and has a new_hash
\* whose blob the content store holds with ref_count >= 1.
C37_GatedChangeBacked ==
    impl = "LocalWorkspace" =>
        \A p \in DOMAIN GatedChanges :
            LET c == GatedChanges[p]
            IN  c.type \in {"add", "modify"} =>
                    /\ c.gated = TRUE
                    /\ c.path = p
                    /\ c.new_hash \in DOMAIN meta
                    /\ meta[c.new_hash].ref_count >= 1
                    /\ contentPath(c.new_hash) \in DOMAIN disk
                    /\ hashContent(disk[contentPath(c.new_hash)]) = c.new_hash

\* A reopened LocalWorkspace holds a Change of type modify and one of type
\* add, loaded from the database.
C37_Witness ==
    /\ impl = "LocalWorkspace"
    /\ cache = << >>
    /\ \E p, q \in DOMAIN GatedChanges :
            /\ GatedChanges[p].type = "modify"
            /\ GatedChanges[q].type = "add"

----------------------------------------------------------------------------
(* CleanupGatedChanges and the stored gated records *)

\* C38: an entry discarded by CleanupGatedChanges stays discarded: loading
\* the gated changes from the database after the cleanup, in the same
\* instance or in a new workspace opened on the same database, does not
\* bring the discarded path back.
C38_CleanupDurable ==
    impl = "LocalWorkspace" =>
        LET after     == CleanupOp(WsState)
            discarded == DOMAIN GatedChanges \ DOMAIN after.GatedChanges
            reloaded  == LoadGatedChangesOp(after)
            reopened  == LoadGatedChangesOp([after EXCEPT !.st.cache = << >>,
                                                          !.GatedChanges = EmptyMap])
        IN  \A p \in discarded :
                /\ p \notin DOMAIN reloaded.GatedChanges
                /\ p \notin DOMAIN reopened.GatedChanges

----------------------------------------------------------------------------
(* Status as a read *)

\* C39: Status is read-only in every implementation: with an empty or a
\* non-empty gated map a Status call leaves the database (changeset records
\* and their time and path indices, gated records, file states), the gated
\* map and the tracked set as they were.  Status of a LocalWorkspace and of
\* an AutoTracker only build the returned list; Status of a LocalTracker is
\* CreateChangeSet("status").
C39_StatusReadOnly ==
    impl = "LocalTracker" =>
        \A o \in Orders(DOMAIN GatedChanges), id \in 1..MaxChangeSets, df \in BOOLEAN :
            LET r == TrackerStatus(WsState, o, id, df)
            IN  /\ r.w.db = db
                /\ r.w.GatedChanges = GatedChanges
                /\ r.w.Tracked = Tracked

----------------------------------------------------------------------------
(* content.FileStore: blobs in files under a root directory, and a cache    *)
(* map from hash to content.  objects = [files, cache]; the paths are       *)
(* relative to the root.                                                    *)

\* FileStore.Store.  fault: MkdirAll fails; Stat fails with an error other
\* than "not exist" (the write is skipped); WriteFile fails before creating
\* the file, or after creating it and before writing the bytes.
FileStoreStore(fs, content, fault) ==
    LET hash == hashContent(content)
        path == <<SubSeq(hash, 1, ShardLen), SubSeq(hash, ShardLen + 1, Len(hash))>>
        absent == path \notin DOMAIN fs.files /\ fault # "stat"
    IN  IF fault = "mkdir"
        THEN [fs |-> fs, hash |-> NoHash, path |-> path, err |-> "IO"]
        ELSE IF absent /\ fault = "open"
        THEN [fs |-> fs, hash |-> NoHash, path |-> path, err |-> "IO"]
        ELSE IF absent /\ fault = "write"
        THEN [fs |-> [fs EXCEPT !.files = Put(@, path, << >>)],
              hash |-> NoHash, path |-> path, err |-> "IO"]
        ELSE [fs |-> [files |-> IF absent THEN Put(fs.files, path, content)
                                ELSE fs.files,
                      cache |-> Put(fs.cache, hash, content)],
              hash |-> hash, path |-> path, err |-> NoErr]

\* FileStore.Get: the file is read at Join(root, ".tig", "content",
\* hash[:2], hash); the cache is not looked at.
FileStoreGet(fs, hash) ==
    LET contentPath_ == <<".tig", "content", SubSeq(hash, 1, ShardLen), hash>>
    IN  IF contentPath_ \in DOMAIN fs.files
        THEN [content |-> fs.files[contentPath_], path |-> contentPath_, err |-> NoErr]
        ELSE [content |-> << >>, path |-> contentPath_, err |-> "ErrContentNotFound"]

\* FileStore.Exists: the cache first, then Stat of Join(root, hash[:2], hash[2:]).
FileStoreExists(fs, hash) ==
    IF hash = NoHash THEN FALSE
    ELSE \/ hash \in DOMAIN fs.cache
         \/ <<SubSeq(hash, 1, ShardLen), SubSeq(hash, ShardLen + 1, Len(hash))>>
                \in DOMAIN fs.files

\* A caller stores a content in the FileStore.
ObjectStore(content, fault) ==
    /\ objects' = FileStoreStore(objects, content, fault).fs
    /\ UNCHANGED <<safeVars, hist, concVars, files, GatedChanges, Tracked, db,
                   events, impl, diffRun>>

\* The process ends and the next one calls NewFileStore on the same root.
NewFileStore ==
    /\ objects' = [objects EXCEPT !.cache = EmptyMap]
    /\ UNCHANGED <<safeVars, hist, concVars, files, GatedChanges, Tracked, db,
                   events, impl, diffRun>>

SpecObjects ==
    Init /\ [][\/ \E c \in ObjectContents, f \in {"none", "mkdir", "stat", "open", "write"} :
                        ObjectStore(c, f)
               \/ NewFileStore]_vars

\* C40: FileStore.Get(FileStore.Store(b)) returns b for every b: Get reads
\* the blob at the location Store wrote it to, <root>/<hash[:2]>/<hash[2:]>,
\* and Exists(hash) is true exactly for the hashes Get can return.
C40_FileStoreRoundTrip ==
    /\ \A b \in ObjectContents :
            LET s == FileStoreStore(objects, b, "none")
                g == FileStoreGet(s.fs, s.hash)
            IN  /\ s.err = NoErr
                /\ g.err = NoErr
                /\ g.content = b
                /\ g.path = s.path
                /\ s.path = <<SubSeq(s.hash, 1, ShardLen),
                              SubSeq(s.hash, ShardLen + 1, Len(s.hash))>>
    /\ \A b \in ObjectContents :
            FileStoreExists(objects, hashContent(b))
                <=> FileStoreGet(objects, hashContent(b)).err = NoErr
====
